---- MODULE Spec2Model ----
(***************************************************************************)
(* Daily Impressionist: the cache-first new-tab page of src/script.js      *)
(* (lines 1-351: FALLBACK, filters, toDataUrl, prefetchAndCache, the       *)
(* DOMContentLoaded handler, fetchRandomArtwork, renderArtwork).           *)
(*                                                                         *)
(* A tab is one page context.  Opening it fires DOMContentLoaded; closing  *)
(* it destroys the handler, the background refill and the image load, but  *)
(* not the storage requests the page has already sent.  Every await of the *)
(* code is a point where the model can interleave other steps.             *)
(*                                                                         *)
(* src/script.js also carries, from line 844 on, the page's earlier entry   *)
(* point without a cache (fetch, then render or fallback); the cache-first *)
(* program of lines 1-351 is the one modelled here.                        *)
(*                                                                         *)
(* chrome.storage.local is modelled as the value kept under key 'ready'    *)
(* plus, for every tab, the FIFO of requests that page has sent and the    *)
(* store has not yet processed (requests of one page are processed in the  *)
(* order they were sent; any request can fail).                            *)
(*                                                                         *)
(* Spec     one tab opened and closed again and again: the controller.     *)
(* TabsSpec two tabs side by side over one store.                          *)
(* PageSpec one tab, the controller and the stock/note widget (lines       *)
(*          354-841) side by side, the widget on its own two keys.         *)
(* EraSpec  the filter inImpressionistEra applied to one date string.      *)
(* ArtistSpec  the filter matchesArtist applied to one attribution.        *)
(* AdapterSpec one call of one museum adapter (lines 176-304), from the    *)
(*          request to the value returned or the exception raised; the     *)
(*          controller above sees an adapter only by how its call ends.    *)
(* TickerSpec  normalizeTicker applied to one string, then to its result.  *)
(* ListSpec one tab, the widget's ticker list alone (addTicker and         *)
(*          removeTicker over two tickers).                                *)
(***************************************************************************)
EXTENDS Integers, Sequences, FiniteSets, TLC

\* ---------------------------------------------------------------- bounds
\* Number of distinct artworks each museum API can serve.
NumArt == 1

\* Longest date string, in characters, fed to inImpressionistEra.
MaxDateLen == 5

\* Most widget requests one page has pending in the store at a time.
MaxSent == 2

\* Most pieces (a name, a tag, a stray bracket) a text given to matchesArtist
\* is made of.
MaxFrags == 3

\* Most records one search response of a museum API holds.
MaxRecords == 2

\* Most characters of a ticker typed in, blanks and suffix apart.
MaxTickerLen == 6

\* ------------------------------------------------------------- constants
Tabs == {"tabA", "tabB"}

\* The session specification runs one tab that is opened and closed again
\* and again, so its sessions follow one another.
SoloTabs == {"tabA"}

\* null / undefined
None == [null |-> TRUE]

FALLBACK ==
  [title    |-> "Water Lilies",
   artist   |-> "Claude Monet",
   year     |-> "1906",
   imageUrl |-> "https://www.artic.edu/iiif/2/3c27b499-af56-f0d5-93b5-a7f2f1ad5813/full/1686,/0/default.jpg",
   source   |-> "Art Institute of Chicago"]

\* Object.keys(FETCHERS), in declaration order
FETCHERS == <<"met", "aic", "vam", "cleveland">>

\* the `source` string each adapter writes into its records
Museum ==
  [met       |-> "The Metropolitan Museum of Art",
   aic       |-> "Art Institute of Chicago",
   vam       |-> "Victoria and Albert Museum",
   cleveland |-> "Cleveland Museum of Art"]

\* ----------------------------------------------------------- the network
\* What the museum APIs can serve: NumArt works per museum, none of them
\* the hard-coded fallback record.
WorkTitle  == <<"Impression, Sunrise", "The Cradle", "La Grenouillere">>
WorkArtist == <<"Claude Monet", "Berthe Morisot", "Pierre-Auguste Renoir">>
WorkYear   == <<"1872", "1872", "1869">>
WorkImage  == <<"https://img/1.jpg", "https://img/2.jpg", "https://img/3.jpg">>

Catalogue(src) ==
  { [title    |-> WorkTitle[k],
     artist   |-> WorkArtist[k],
     year     |-> WorkYear[k],
     imageUrl |-> WorkImage[k],
     source   |-> Museum[src]] : k \in 1..NumArt }

\* reader.result for a 2xx image body and for the body of an error response
\* (toDataUrl never looks at res.ok)
DataUrlImage     == "data:image/jpeg;base64"
DataUrlErrorBody == "data:text/html;base64"

\* ------------------------------------------------------------- utilities
Range(s) == { s[i] : i \in DOMAIN s }
Last(s)  == s[Len(s)]

\* Faulty variant: the data URL is left out of the entry.
WithDataUrl_Dropped(a, d) == a

\* { ...artwork, dataUrl }
WithDataUrl(a, d) ==
  [k \in DOMAIN a \cup {"dataUrl"} |-> IF k = "dataUrl" THEN d ELSE a[k]]

\* the record without its dataUrl property
WithoutDataUrl(e) == [k \in DOMAIN e \ {"dataUrl"} |-> e[k]]

\* ready?.dataUrl  (truthy)
HasDataUrl(v) == v # None /\ "dataUrl" \in DOMAIN v /\ v.dataUrl # ""

\* Faulty variant: a shuffle that draws each position on its own, so a key
\* can come twice and another not at all.
Shuffles_WithRepeats == [1..Len(FETCHERS) -> Range(FETCHERS)]

\* Object.keys(FETCHERS).sort(() => Math.random() - 0.5): the comparator is
\* random, so the engine's sort can leave the keys in any order.
Shuffles ==
  { p \in [1..Len(FETCHERS) -> Range(FETCHERS)] : Range(p) = Range(FETCHERS) }

\* ======================================================= inImpressionistEra
\* A JS string is the sequence of its characters.
Str(s) == [chars |-> s]

Digits == {"0", "1", "2", "3", "4", "5", "6", "7", "8", "9"}

DigitValue ==
  "0" :> 0 @@ "1" :> 1 @@ "2" :> 2 @@ "3" :> 3 @@ "4" :> 4 @@
  "5" :> 5 @@ "6" :> 6 @@ "7" :> 7 @@ "8" :> 8 @@ "9" :> 9

\* unary plus on a string of four digits
ToNumber(m) ==
  1000 * DigitValue[m[1]] + 100 * DigitValue[m[2]] + 10 * DigitValue[m[3]]
    + DigitValue[m[4]]

\* four digits start at position i of s
DigitsAt(s, i) == i + 3 <= Len(s) /\ \A k \in 0..3 : s[i + k] \in Digits

RECURSIVE ScanFrom(_, _)
\* the regex engine tries position i, then i + 1, ...; None when nothing matches
ScanFrom(s, i) ==
  IF i + 3 > Len(s) THEN None
  ELSE IF DigitsAt(s, i) THEN Str(SubSeq(s, i, i + 3))
  ELSE ScanFrom(s, i + 1)

\* Faulty variant: the last run of four digits is taken.
MatchYear_LastRun(s) ==
  LET starts == { i \in 1..Len(s) : DigitsAt(s, i) } IN
  IF starts = {} THEN None
  ELSE LET i == CHOOSE j \in starts : \A k \in starts : k <= j
       IN  Str(SubSeq(s, i, i + 3))

\* String(raw).match(/\d{4}/): m[0], or None for a null match
MatchYear(s) == ScanFrom(s, 1)

\* Faulty variant: both ends of the era are excluded.
inImpressionistEra_Exclusive(raw) ==
  IF raw = None \/ raw = Str(<<>>) THEN TRUE
  ELSE LET m == MatchYear(raw.chars) IN
       IF m = None THEN TRUE
       ELSE LET y == ToNumber(m.chars) IN y > 1860 /\ y < 1910

\* inImpressionistEra(raw), raw being null or a string
inImpressionistEra(raw) ==
  IF raw = None \/ raw = Str(<<>>) THEN TRUE
  ELSE LET m == MatchYear(raw.chars) IN
       IF m = None THEN TRUE
       ELSE LET y == ToNumber(m.chars) IN y >= 1860 /\ y <= 1910

\* The date strings the function is applied to: every string of four digits,
\* every string of up to MaxDateLen characters over a small alphabet, the
\* date strings of src/test.js, and null.
DateAlphabet == {"1", "9", "0", "c", " "}

DateSamples ==
  { <<"c", "i", "r", "c", "a", " ", "1", "8", "8", "5">>,
    <<"c", ".", " ", "1", "9", "0", "0", "-", "0", "5">>,
    <<"n", "o", " ", "d", "a", "t", "e">> }

DateInputs ==
  {None}
    \cup { Str(s) : s \in [1..4 -> Digits] }
    \cup { Str(s) : s \in UNION { [1..n -> DateAlphabet] : n \in 0..MaxDateLen } }
    \cup { Str(s) : s \in DateSamples }

\* ========================================================== ticker helpers
Whitespace == {" "}

\* String.prototype.trim
Trim(s) ==
  LET ink == { i \in DOMAIN s : s[i] \notin Whitespace } IN
  IF ink = {} THEN <<>>
  ELSE SubSeq(s, CHOOSE i \in ink : \A j \in ink : i <= j,
                 CHOOSE i \in ink : \A j \in ink : j <= i)

UpperOf ==
  "a" :> "A" @@ "b" :> "B" @@ "c" :> "C" @@ "d" :> "D" @@ "e" :> "E" @@
  "f" :> "F" @@ "g" :> "G" @@ "h" :> "H" @@ "i" :> "I" @@ "j" :> "J" @@
  "k" :> "K" @@ "l" :> "L" @@ "m" :> "M" @@ "n" :> "N" @@ "o" :> "O" @@
  "p" :> "P" @@ "q" :> "Q" @@ "r" :> "R" @@ "s" :> "S" @@ "t" :> "T" @@
  "u" :> "U" @@ "v" :> "V" @@ "w" :> "W" @@ "x" :> "X" @@ "y" :> "Y" @@
  "z" :> "Z"

\* String.prototype.toUpperCase
ToUpperCase(s) ==
  [i \in DOMAIN s |-> IF s[i] \in DOMAIN UpperOf THEN UpperOf[s[i]] ELSE s[i]]

AllDigits(s) == \A i \in DOMAIN s : s[i] \in Digits

\* s ends with ".HK" in any letter case  (/\.HK$/i)
HasHkSuffix(s) ==
  /\ Len(s) >= 3
  /\ s[Len(s) - 2] = "."
  /\ s[Len(s) - 1] \in {"h", "H"}
  /\ s[Len(s)] \in {"k", "K"}

\* s.replace(/\.HK$/i, '')
StripHkSuffix(s) == IF HasHkSuffix(s) THEN SubSeq(s, 1, Len(s) - 3) ELSE s

\* /^\d{1,5}(\.HK)?$/i.test(raw.trim())
isHKTicker(raw) ==
  LET d == StripHkSuffix(Trim(raw)) IN Len(d) \in 1..5 /\ AllDigits(d)

\* s.replace(/^0+/, '')
StripLeadingZeros(s) ==
  LET nz == { i \in DOMAIN s : s[i] # "0" } IN
  IF nz = {} THEN <<>>
  ELSE SubSeq(s, CHOOSE i \in nz : \A j \in nz : i <= j, Len(s))

PadStart4_Off(s) == s

\* s.padStart(4, '0')
PadStart4(s) == IF Len(s) >= 4 THEN s ELSE [i \in 1..(4 - Len(s)) |-> "0"] \o s

normalizeHkTicker(raw) ==
  LET z      == StripLeadingZeros(StripHkSuffix(Trim(raw)))
      digits == IF z = <<>> THEN <<"0">> ELSE z
  IN  PadStart4(digits) \o <<".", "H", "K">>

normalizeTicker(raw) ==
  IF isHKTicker(raw) THEN normalizeHkTicker(raw) ELSE ToUpperCase(Trim(raw))

\* The strings normalizeTicker is tried on: the ones of the test suite, and
\* every string of at most MaxTickerLen digits and letters, with or without a
\* suffix, with or without blanks around it.
TickerSamples == {
  <<"0", "7", "0", "0">>,
  <<"0", "7", "0", "0", ".", "H", "K">>,
  <<"7", "0", "0">>,
  <<"9", "9", "8", "8">>,
  <<"9", "9", "8", "8", ".", "h", "k">>,
  <<"1">>,
  <<"1", "2", "3", "4", "5">>,
  <<"N", "V", "D", "A">>,
  <<"A", "A", "P", "L">>,
  <<>>,
  <<"1", "2", "3", "4", "5", "6">>,
  <<"0", "7", "0", "0", ".", "U", "S">>,
  <<"a", "b", "c">>,
  <<"0">>,
  <<"n", "v", "d", "a">>,
  <<" ", "t", "s", "l", "a", " ">>
}

TickerAlphabet == {"0", "7", "a"}
TickerSuffixes == {<<>>, <<".", "H", "K">>, <<".", "h", "k">>, <<".", "U", "S">>}
TickerPads == {<<>>, <<" ">>}

TickerInputs ==
  TickerSamples
    \cup { pad \o body \o suffix \o pad :
             pad \in TickerPads, suffix \in TickerSuffixes,
             body \in UNION { [1..n -> TickerAlphabet] : n \in 0..MaxTickerLen } }

\* What the user types into the stock input and into the note.
RawTickers == { <<"7", "0", "0", ".", "h", "k">> }

\* the tickers a card can carry
Tickers == { normalizeTicker(raw) : raw \in RawTickers }

EditorBlank == "<div><br></div>"
NoteTexts == {"<div>buy milk</div>"}

\* a stored array / a stored HTML string
Arr(l) == [list |-> l]
Html(h) == [html |-> h]

\* ============================================================ matchesArtist
\* A text is a sequence of one-character strings; a field that can be absent
\* is None or Str(text).
IMPRESSIONISTS == <<
  <<"M", "o", "n", "e", "t">>,
  <<"R", "e", "n", "o", "i", "r">>,
  <<"P", "i", "s", "s", "a", "r", "r", "o">>,
  <<"S", "i", "s", "l", "e", "y">>,
  <<"D", "e", "g", "a", "s">>,
  <<"M", "o", "r", "i", "s", "o", "t">>,
  <<"C", "a", "s", "s", "a", "t", "t">>,
  <<"C", "a", "i", "l", "l", "e", "b", "o", "t", "t", "e">>,
  <<"M", "a", "n", "e", "t">>,
  <<"B", "a", "z", "i", "l", "l", "e">>,
  <<"G", "u", "i", "l", "l", "a", "u", "m", "i", "n">>,
  <<"C", "é", "z", "a", "n", "n", "e">>,
  <<"G", "a", "u", "g", "u", "i", "n">>,
  <<"v", "a", "n", " ", "G", "o", "g", "h">>,
  <<"S", "e", "u", "r", "a", "t">>,
  <<"S", "i", "g", "n", "a", "c">>,
  <<"T", "o", "u", "l", "o", "u", "s", "e", "-", "L", "a", "u", "t", "r", "e", "c">>,
  <<"R", "e", "d", "o", "n">>,
  <<"R", "o", "u", "s", "s", "e", "a", "u">>,
  <<"B", "o", "n", "n", "a", "r", "d">>,
  <<"V", "u", "i", "l", "l", "a", "r", "d">>,
  <<"G", "o", "n", "z", "a", "l", "è", "s">>,
  <<"B", "r", "a", "c", "q", "u", "e", "m", "o", "n", "d">>,
  <<"J", "o", "n", "g", "k", "i", "n", "d">>,
  <<"B", "o", "u", "d", "i", "n">>,
  <<"F", "a", "n", "t", "i", "n", "-", "L", "a", "t", "o", "u", "r">>,
  <<"L", "e", "p", "i", "n", "e">>,
  <<"H", "a", "s", "s", "a", "m">>,
  <<"S", "a", "r", "g", "e", "n", "t">>,
  <<"C", "h", "a", "s", "e">>,
  <<"T", "w", "a", "c", "h", "t", "m", "a", "n">>,
  <<"M", "e", "t", "c", "a", "l", "f">>,
  <<"T", "a", "r", "b", "e", "l", "l">>,
  <<"B", "e", "n", "s", "o", "n">>,
  <<"D", "e", "w", "i", "s">>,
  <<"V", "o", "n", "n", "o", "h">>,
  <<"S", "o", "r", "o", "l", "l", "a">>
>>

LowerOf ==
  "A" :> "a" @@ "B" :> "b" @@ "C" :> "c" @@ "D" :> "d" @@ "E" :> "e" @@
  "F" :> "f" @@ "G" :> "g" @@ "H" :> "h" @@ "I" :> "i" @@ "J" :> "j" @@
  "K" :> "k" @@ "L" :> "l" @@ "M" :> "m" @@ "N" :> "n" @@ "O" :> "o" @@
  "P" :> "p" @@ "Q" :> "q" @@ "R" :> "r" @@ "S" :> "s" @@ "T" :> "t" @@
  "U" :> "u" @@ "V" :> "v" @@ "W" :> "w" @@ "X" :> "x" @@ "Y" :> "y" @@
  "Z" :> "z" @@ "É" :> "é" @@ "È" :> "è"

\* String.prototype.toLowerCase
ToLowerCase(s) ==
  [i \in DOMAIN s |-> IF s[i] \in DOMAIN LowerOf THEN LowerOf[s[i]] ELSE s[i]]

\* String.prototype.includes
Includes(s, part) ==
  \E i \in 0..(Len(s) - Len(part)) : SubSeq(s, i + 1, i + Len(part)) = part

\* s.replace(/<[^>]*>/g, ''), scanning from position i: a "<" that has a ">"
\* somewhere after it is dropped together with everything up to the first
\* such ">"; every other character is kept.
RECURSIVE StripTags(_, _)
StripTags(s, i) ==
  IF i > Len(s) THEN <<>>
  ELSE IF s[i] = "<" /\ \E j \in (i + 1)..Len(s) : s[j] = ">"
       THEN LET close == CHOOSE j \in (i + 1)..Len(s) :
                           /\ s[j] = ">"
                           /\ \A k \in (i + 1)..(j - 1) : s[k] # ">"
            IN  StripTags(s, close + 1)
       ELSE <<s[i]>> \o StripTags(s, i + 1)

\* String(s ?? '').replace(/<[^>]*>/g, '').trim()
stripHtml(s) == Trim(StripTags(IF s = None THEN <<>> ELSE s.chars, 1))

matchesArtist_CaseSensitive(str) ==
  \E k \in DOMAIN IMPRESSIONISTS : Includes(stripHtml(str), IMPRESSIONISTS[k])

matchesArtist(str) ==
  LET lower == ToLowerCase(stripHtml(str)) IN
  \E k \in DOMAIN IMPRESSIONISTS : Includes(lower, ToLowerCase(IMPRESSIONISTS[k]))

\* The strings matchesArtist is tried on: the ones of the test suite (the
\* dash between the two years of the first one written as a hyphen), and
\* every text made of at most MaxFrags pieces of markup and of names.
ArtistSamples == {
  <<"C", "l", "a", "u", "d", "e", " ", "M", "o", "n", "e", "t", " ", "(", "F", "r", "e", "n", "c", "h", ",", " ", "1", "8", "4", "0", "-", "1", "9", "2", "6", ")">>,
  <<"P", "i", "e", "r", "r", "e", "-", "A", "u", "g", "u", "s", "t", "e", " ", "R", "e", "n", "o", "i", "r">>,
  <<"V", "i", "n", "c", "e", "n", "t", " ", "v", "a", "n", " ", "G", "o", "g", "h">>,
  <<"P", "a", "u", "l", " ", "C", "é", "z", "a", "n", "n", "e">>,
  <<"P", "a", "b", "l", "o", " ", "P", "i", "c", "a", "s", "s", "o">>,
  <<"R", "e", "m", "b", "r", "a", "n", "d", "t", " ", "v", "a", "n", " ", "R", "i", "j", "n">>,
  <<>>,
  <<"<", "b", ">", "M", "o", "n", "e", "t", "<", "/", "b", ">">>
}

ArtistPieces == <<
  <<"<", "b", ">">>,
  <<"<", "/", "b", ">">>,
  <<"<">>,
  <<">">>,
  <<"M", "o", "n">>,
  <<"e", "t">>,
  <<"M", "O", "N", "E", "T", " ">>,
  <<"P", "i", "c", "a", "s", "s", "o">>
>>

RECURSIVE Glue(_)
Glue(ps) == IF ps = <<>> THEN <<>> ELSE ArtistPieces[Head(ps)] \o Glue(Tail(ps))

ArtistInputs ==
  {None}
    \cup { Str(s) : s \in ArtistSamples }
    \cup { Str(Glue(ps)) :
             ps \in UNION { [1..n -> DOMAIN ArtistPieces] : n \in 0..MaxFrags } }

\* ================================================================ adapters
\* A JSON string field is None (absent) or Str(text).  `x || d` on such a
\* field: an absent and an empty string both give way to d.
Truthy(x) == x # None /\ x # Str(<<>>)

OrElse_NoDefault(x, d) == IF x = None THEN <<>> ELSE x.chars

OrElse(x, d) == IF Truthy(x) THEN x.chars ELSE d

\* fetchFromMet's loop bound
MaxDraws == 6

Untitled == <<"U", "n", "t", "i", "t", "l", "e", "d">>
Unknown == <<"U", "n", "k", "n", "o", "w", "n">>
MetSource == <<"T", "h", "e", " ", "M", "e", "t", "r", "o", "p", "o", "l", "i", "t", "a", "n", " ", "M", "u", "s", "e", "u", "m", " ", "o", "f", " ", "A", "r", "t">>
AicSource == <<"A", "r", "t", " ", "I", "n", "s", "t", "i", "t", "u", "t", "e", " ", "o", "f", " ", "C", "h", "i", "c", "a", "g", "o">>
VamSource == <<"V", "i", "c", "t", "o", "r", "i", "a", " ", "a", "n", "d", " ", "A", "l", "b", "e", "r", "t", " ", "M", "u", "s", "e", "u", "m">>
ClevelandSource == <<"C", "l", "e", "v", "e", "l", "a", "n", "d", " ", "M", "u", "s", "e", "u", "m", " ", "o", "f", " ", "A", "r", "t">>

\* pickArtist(): two names of the list stand for all of them
QueryArtists == { IMPRESSIONISTS[1], IMPRESSIONISTS[5] }

\* -- what the museums can answer.  Every field is absent, or holds a value
\* that passes the adapter's test on it, or one that fails it.
Attributions == {None, Str(<<"C", "l", "a", "u", "d", "e", " ", "M", "o", "n", "e", "t">>), Str(<<"P", "a", "b", "l", "o", " ", "P", "i", "c", "a", "s", "s", "o">>)}
Dates == {None, Str(<<"1", "8", "7", "2">>), Str(<<"1", "8", "5", "0">>)}
Titles == {None, Str(<<"L", "i", "l", "i", "e", "s">>)}

\* a Met object record (GET /objects/<id>); the record of an unknown id has
\* none of the fields
MetImages ==
  { [primaryImageSmall |-> None, primaryImage |-> None],
    [primaryImageSmall |-> Str(<<>>), primaryImage |-> Str(<<"p", ".", "j", "p", "g">>)],
    [primaryImageSmall |-> Str(<<"s", ".", "j", "p", "g">>), primaryImage |-> None] }

MetRecords ==
  { [ primaryImageSmall |-> im.primaryImageSmall,
      primaryImage |-> im.primaryImage, artistDisplayName |-> at,
      objectDate |-> d, title |-> ti ] :
      im \in MetImages, at \in Attributions, d \in Dates, ti \in Titles }

\* the objectIDs of a Met search: absent, empty, or some ids
MetIdLists == {None, Arr(<<>>), Arr(<<1>>), Arr(<<1, 2>>)}

\* const imageUrl = obj.primaryImageSmall || obj.primaryImage
MetImage(obj) ==
  IF Truthy(obj.primaryImageSmall) THEN obj.primaryImageSmall ELSE obj.primaryImage

\* the three `continue` tests of the loop, negated
MetKeeps(obj) ==
  /\ Truthy(MetImage(obj))
  /\ matchesArtist(obj.artistDisplayName)
  /\ inImpressionistEra(obj.objectDate)

MetArtwork(obj, artist) ==
  [ title    |-> OrElse(obj.title, Untitled),
    artist   |-> OrElse(obj.artistDisplayName, artist),
    year     |-> OrElse(obj.objectDate, <<>>),
    imageUrl |-> MetImage(obj).chars,
    source   |-> MetSource ]

\* an AIC search hit
AicRecords ==
  [ image_id       : {None, Str(<<"a", "b", "1", "2">>)},
    artist_display : Attributions,
    style_title    : {None, Str(<<"I", "m", "p", "r", "e", "s", "s", "i", "o", "n", "i", "s", "m">>), Str(<<"C", "u", "b", "i", "s", "m">>)},
    date_display   : Dates,
    title          : Titles ]

AicKeeps_AnyStyle(a) ==
  /\ Truthy(a.image_id)
  /\ matchesArtist(a.artist_display)
  /\ inImpressionistEra(a.date_display)

\* the filter of fetchFromAIC
AicKeeps(a) ==
  /\ Truthy(a.image_id)
  /\ matchesArtist(a.artist_display)
  /\ a.style_title # None
  /\ Includes(ToLowerCase(a.style_title.chars), <<"i", "m", "p", "r", "e", "s", "s", "i", "o", "n", "i">>)
  /\ inImpressionistEra(a.date_display)

AicArtwork(art) ==
  [ title    |-> OrElse(art.title, Untitled),
    artist   |-> OrElse(art.artist_display, Unknown),
    year     |-> OrElse(art.date_display, <<>>),
    imageUrl |-> <<"h", "t", "t", "p", "s", ":", "/", "/", "w", "w", "w", ".", "a", "r", "t", "i", "c", ".", "e", "d", "u", "/", "i", "i", "i", "f", "/", "2", "/">>
                   \o art.image_id.chars
                   \o <<"/", "f", "u", "l", "l", "/", "1", "6", "8", "6", ",", "/", "0", "/", "d", "e", "f", "a", "u", "l", "t", ".", "j", "p", "g">>,
    source   |-> AicSource ]

\* a V&A search record: thumbnail is r._images?._primary_thumbnail, maker is
\* r._primaryMaker?.name (absent when the enclosing object is)
VamRecords ==
  [ thumbnail : {None, Str(<<"/", "c", "/", "f", "u", "l", "l", "/", "!", "1", "0", "0", ",", "1", "0", "0", "/", "0", "/", "d", ".", "j", "p", "g">>), Str(<<"t", ".", "j", "p", "g">>)},
    maker     : Attributions,
    date      : Dates,
    title     : Titles ]

VamKeeps_NoEra(r) ==
  /\ Truthy(r.thumbnail)
  /\ matchesArtist(r.maker)

\* the filter of fetchFromVAM
VamKeeps(r) ==
  /\ Truthy(r.thumbnail)
  /\ matchesArtist(r.maker)
  /\ inImpressionistEra(r.date)

\* where /\/full\/![^/]+\// matches in s: "/full/!" at i, one character or
\* more that is not a slash, then a slash
FullAt(s, i) ==
  /\ i + 8 <= Len(s)
  /\ SubSeq(s, i, i + 6) = <<"/", "f", "u", "l", "l", "/", "!">>
  /\ s[i + 7] # "/"
  /\ \E j \in (i + 8)..Len(s) : s[j] = "/"

ReplaceFull_Drop(s) ==
  IF \A i \in DOMAIN s : ~FullAt(s, i) THEN <<>> ELSE s

\* s.replace(/\/full\/![^/]+\//, '/full/!1200,1200/')
ReplaceFull(s) ==
  IF \A i \in DOMAIN s : ~FullAt(s, i) THEN s
  ELSE LET i == CHOOSE a \in DOMAIN s :
                  FullAt(s, a) /\ \A b \in DOMAIN s : FullAt(s, b) => a <= b
           j == CHOOSE a \in (i + 8)..Len(s) :
                  s[a] = "/" /\ \A b \in (i + 8)..(a - 1) : s[b] # "/"
       IN  SubSeq(s, 1, i - 1) \o <<"/", "f", "u", "l", "l", "/", "!", "1", "2", "0", "0", ",", "1", "2", "0", "0", "/">>
             \o SubSeq(s, j + 1, Len(s))

VamArtwork(rec, artist) ==
  [ title    |-> OrElse(rec.title, Untitled),
    artist   |-> OrElse(rec.maker, artist),
    year     |-> OrElse(rec.date, <<>>),
    imageUrl |-> ReplaceFull(rec.thumbnail.chars),
    source   |-> VamSource ]

\* a Cleveland artwork: print is a.images?.print?.url, web is
\* a.images?.web?.url; creators is absent or the list of the creators'
\* description fields
ClevelandCreators ==
  { None,
    Arr(<<None>>),
    Arr(<<Str(<<"C", "l", "a", "u", "d", "e", " ", "M", "o", "n", "e", "t", " ", "(", "F", "r", "e", "n", "c", "h", ",", " ", "1", "8", "4", "0", "-", "1", "9", "2", "6", ")">>)>>),
    Arr(<<Str(<<"(", "a", "f", "t", "e", "r", ")", " ", "C", "l", "a", "u", "d", "e", " ", "M", "o", "n", "e", "t">>)>>),
    Arr(<<Str(<<"P", "a", "b", "l", "o", " ", "P", "i", "c", "a", "s", "s", "o">>)>>),
    Arr(<<None, Str(<<"A", "l", "f", "r", "e", "d", " ", "S", "i", "s", "l", "e", "y">>)>>),
    Arr(<<Str(<<"S", "t", "u", "d", "i", "o", " ", "(", "P", "a", "r", "i", "s", ")">>), Str(<<"E", "d", "g", "a", "r", " ", "D", "e", "g", "a", "s">>)>>) }

ClevelandImages ==
  { [print |-> None, web |-> None],
    [print |-> None, web |-> Str(<<"w", ".", "j", "p", "g">>)],
    [print |-> Str(<<"p", ".", "j", "p", "g">>), web |-> Str(<<"w", ".", "j", "p", "g">>)] }

ClevelandRecords ==
  { [ print |-> im.print, web |-> im.web, creators |-> cr,
      creation_date |-> d, title |-> ti ] :
      im \in ClevelandImages, cr \in ClevelandCreators,
      d \in Dates \ {None}, ti \in Titles }

\* a.images?.print?.url || a.images?.web?.url
ClevelandImage(a) == IF Truthy(a.print) THEN a.print ELSE a.web

\* Array.prototype.join(' '): an undefined element is joined as ''
RECURSIVE Join(_)
Join(ds) ==
  IF ds = <<>> THEN <<>>
  ELSE (IF Head(ds) = None THEN <<>> ELSE Head(ds).chars)
         \o (IF Len(ds) > 1 THEN <<" ">> \o Join(Tail(ds)) ELSE <<>>)

\* the filter of fetchFromCleveland
ClevelandKeeps(a) ==
  /\ Truthy(ClevelandImage(a))
  /\ matchesArtist(Str(Join(IF a.creators = None THEN <<>> ELSE a.creators.list)))

\* s.split('(')[0]
BeforeParen(s) ==
  LET opens == { i \in DOMAIN s : s[i] = "(" } IN
  IF opens = {} THEN s
  ELSE SubSeq(s, 1, (CHOOSE i \in opens : \A j \in opens : i <= j) - 1)

CleanName_Whole(art, artist) ==
  LET first == IF art.creators = None \/ art.creators.list = <<>> THEN None
               ELSE art.creators.list[1]
      name  == Trim(OrElse(first, artist))
  IN  IF name = <<>> THEN artist ELSE name

\* const rawName = art.creators?.[0]?.description || artist;
\* const name    = rawName.split('(')[0].trim() || artist;
CleanName(art, artist) ==
  LET first   == IF art.creators = None \/ art.creators.list = <<>> THEN None
                 ELSE art.creators.list[1]
      rawName == OrElse(first, artist)
      name    == Trim(BeforeParen(rawName))
  IN  IF name = <<>> THEN artist ELSE name

ClevelandArtwork(art, artist) ==
  [ title    |-> OrElse(art.title, Untitled),
    artist   |-> CleanName(art, artist),
    year     |-> OrElse(art.creation_date, <<>>),
    imageUrl |-> ClevelandImage(art).chars,
    source   |-> ClevelandSource ]

\* The records each list adapter can find in one response, the records each
\* adapter keeps, and the lists a response can hold.
Records(src) ==
  CASE src = "aic"       -> AicRecords
    [] src = "vam"       -> VamRecords
    [] src = "cleveland" -> ClevelandRecords

MetValid == { obj \in MetRecords : MetKeeps(obj) }
AicValid == { a \in AicRecords : AicKeeps(a) }
VamValid == { r \in VamRecords : VamKeeps(r) }
ClevelandValid == { a \in ClevelandRecords : ClevelandKeeps(a) }

Valid(src) ==
  CASE src = "aic"       -> AicValid
    [] src = "vam"       -> VamValid
    [] src = "cleveland" -> ClevelandValid

\* (data || []).filter(...)
Filter(src, data) == SelectSeq(data, LAMBDA a : a \in Valid(src))

Normalize(src, rec, artist) ==
  CASE src = "aic"       -> AicArtwork(rec)
    [] src = "vam"       -> VamArtwork(rec, artist)
    [] src = "cleveland" -> ClevelandArtwork(rec, artist)

\* a record every test of its adapter lets through
Typical(src) ==
  CASE src = "aic" ->
         [ image_id |-> Str(<<"a", "b", "1", "2">>),
           artist_display |-> Str(<<"C", "l", "a", "u", "d", "e", " ", "M", "o", "n", "e", "t">>),
           style_title |-> Str(<<"I", "m", "p", "r", "e", "s", "s", "i", "o", "n", "i", "s", "m">>),
           date_display |-> Str(<<"1", "8", "7", "2">>),
           title |-> Str(<<"L", "i", "l", "i", "e", "s">>) ]
    [] src = "vam" ->
         [ thumbnail |-> Str(<<"/", "c", "/", "f", "u", "l", "l", "/", "!", "1", "0", "0", ",", "1", "0", "0", "/", "0", "/", "d", ".", "j", "p", "g">>),
           maker |-> Str(<<"C", "l", "a", "u", "d", "e", " ", "M", "o", "n", "e", "t">>),
           date |-> Str(<<"1", "8", "7", "2">>),
           title |-> Str(<<"L", "i", "l", "i", "e", "s">>) ]
    [] src = "cleveland" ->
         [ print |-> Str(<<"p", ".", "j", "p", "g">>),
           web |-> Str(<<"w", ".", "j", "p", "g">>),
           creators |-> Arr(<<Str(<<"C", "l", "a", "u", "d", "e", " ", "M", "o", "n", "e", "t", " ", "(", "F", "r", "e", "n", "c", "h", ",", " ", "1", "8", "4", "0", "-", "1", "9", "2", "6", ")">>)>>),
           creation_date |-> Str(<<"1", "8", "7", "2">>),
           title |-> Str(<<"L", "i", "l", "i", "e", "s">>) ]

\* the records that differ from it in one field at most
Core(src) ==
  { r \in Records(src) :
      Cardinality({ f \in DOMAIN r : r[f] # Typical(src)[f] }) <= 1 }

\* A response holds one record of any kind, or up to MaxRecords records of
\* the core.
Lists(src) ==
  { <<r>> : r \in Records(src) }
    \cup UNION { [1..n -> Core(src)] : n \in 0..MaxRecords }

\* HTTP status codes a museum's server can answer with
Statuses == {200, 404, 500}

VARIABLES
  slot,        \* chrome.storage.local value under 'ready' (None when absent)
  sq,          \* per tab: storage requests sent and not yet processed
  pc,          \* per tab: position of the DOMContentLoaded handler
  branch,      \* per tab: "none" | "warm" | "cold", decided by the read
  ready,       \* per tab: handler local `ready`
  artwork,     \* per tab: handler local `artwork` (cache-miss branch)
  rendered,    \* per tab: argument of the latest renderArtwork call
  img,         \* per tab: "none" | "loading" | "painted" | "error"
  errorShown,  \* per tab: showError() has been called
  loads,       \* per tab: image loads started (`img.src = ...`) in this session
  rpc,         \* per tab: position of prefetchAndCache
  rart,        \* per tab: prefetchAndCache local `artwork`
  rbody,       \* per tab: what the image response body holds
  rerr,        \* per tab: the error the catch block of prefetchAndCache logged
  opc,         \* per tab: fetchRandomArtwork "idle" | "inflight" | "returned" | "thrown"
  caller,      \* per tab: who awaits the orchestrator run
  sources,     \* per tab: the shuffled key list of the run
  calls,       \* per tab: adapters invoked so far in the run, in order
  running,     \* per tab: adapters whose promise is pending
  outcome,     \* per tab: what each adapter of the run did
  warned,      \* per tab: adapters the run logged with console.warn
  result,      \* per tab: return value of the run
  netStarted,  \* per tab: an adapter call was started in this session
  evict,       \* per tab: "none" | "issued" | "effective" | "failed"
  rng,         \* the key orders the random comparator can make the sort produce
  fresh,       \* per tab (history): `ready` is the entry of the latest write
  late,        \* per tab (history): opened after another open tab consumed that entry
  shown,       \* (history): a session has rendered the entry the slot holds
               \* (forgotten when the entry is deleted or no page is open any more)
  stockWidgets, \* chrome.storage.local value under 'stockWidgets' (None when absent)
  noteContent, \* chrome.storage.local value under 'noteContent' (None when absent)
  wq,          \* per tab: widget storage requests sent and not yet processed
  wpc,         \* per tab: position of initWidget
  cards,       \* per tab: tickers that have a card in #stock-list
  editor,      \* per tab: #note-editor innerHTML
  pad,         \* per tab: #note-pad "hidden" | "open"
  timer,       \* per tab: the debounce timer of the note save is running
  apc,         \* per tab: position of addTicker
  aticker,     \* per tab: addTicker local `ticker`
  dpc,         \* per tab: position of removeTicker
  dticker,     \* per tab: removeTicker argument `ticker`
  eraRaw,      \* inImpressionistEra: the argument
  eraCalled,   \* inImpressionistEra: the call has returned
  eraResult,   \* inImpressionistEra: the value returned
  maRaw,       \* matchesArtist: the argument
  maCalled,    \* matchesArtist: the call has returned
  maResult,    \* matchesArtist: the value returned
  ad,          \* adapter call: "none" | "met" | "aic" | "vam" | "cleveland"
  adPos,       \* adapter call: "idle" | "fetch" | "json" | "drawfetch" |
               \*   "drawjson" | "returned" | "raised"
  adArtist,    \* adapter call: local `artist` (None in fetchFromAIC)
  adStatus,    \* adapter call: HTTP status of the latest response (0: none yet)
  adIds,       \* fetchFromMet: local `objectIDs`
  adDraws,     \* fetchFromMet: record fetches issued so far
  adPick,      \* adapter call: the record drawn last
  adOut,       \* adapter call: the value returned (None: null)
  adCause,     \* adapter call: "none" | "transport" | "json", why it raised
  ntRaw,       \* normalizeTicker: the argument
  ntCalls,     \* normalizeTicker: 0, 1 (applied), 2 (applied to its own result)
  ntOnce,      \* normalizeTicker: normalizeTicker(raw)
  ntTwice      \* normalizeTicker: normalizeTicker(normalizeTicker(raw))

vars == <<slot, sq, pc, branch, ready, artwork, rendered, img, errorShown, loads,
          rpc, rart, rbody, rerr, opc, caller, sources, calls, running, outcome,
          warned, result, netStarted, evict, rng, fresh, late, shown,
          stockWidgets, noteContent, wq, wpc, cards, editor, pad, timer, apc,
          aticker, dpc, dticker, eraRaw, eraCalled, eraResult,
          maRaw, maCalled, maResult, ad, adPos, adArtist, adStatus, adIds,
          adDraws, adPick, adOut, adCause, ntRaw, ntCalls, ntOnce, ntTwice>>

handlerVars == <<pc, branch, ready, artwork>>
renderVars  == <<rendered, img, errorShown, loads>>
refillVars  == <<rpc, rart, rbody, rerr>>
orchVars    == <<opc, caller, sources, calls, running, outcome, warned, result>>
ghostVars   == <<fresh, late, shown>>
eraVars     == <<eraRaw, eraCalled, eraResult>>
artistVars  == <<maRaw, maCalled, maResult>>
adapterVars == <<ad, adPos, adArtist, adStatus, adIds, adDraws, adPick, adOut,
                 adCause>>
tickerVars  == <<ntRaw, ntCalls, ntOnce, ntTwice>>
pureVars    == <<eraVars, artistVars, adapterVars, tickerVars>>
widgetPage  == <<wpc, cards, editor, pad, timer, apc, aticker, dpc, dticker>>
widgetVars  == <<stockWidgets, noteContent, wq, widgetPage>>
restVars    == <<rng, pureVars, widgetVars>>
controllerVars == <<slot, sq, handlerVars, renderVars, refillVars, orchVars,
                    netStarted, evict, ghostVars, rng>>

\* what an adapter call did: "unused" | "null" | "raise" | "artwork" (+ the record)
Outcome(k, v) == [kind |-> k, value |-> v]

NoOutcome == [s \in Range(FETCHERS) |-> Outcome("unused", None)]

\* The page before anything has been opened, over an empty store.
Closed ==
  /\ slot = None
  /\ sq = [t \in Tabs |-> <<>>]
  /\ pc = [t \in Tabs |-> "closed"]
  /\ branch = [t \in Tabs |-> "none"]
  /\ ready = [t \in Tabs |-> None]
  /\ artwork = [t \in Tabs |-> None]
  /\ rendered = [t \in Tabs |-> None]
  /\ img = [t \in Tabs |-> "none"]
  /\ errorShown = [t \in Tabs |-> FALSE]
  /\ loads = [t \in Tabs |-> 0]
  /\ rpc = [t \in Tabs |-> "idle"]
  /\ rart = [t \in Tabs |-> None]
  /\ rbody = [t \in Tabs |-> "none"]
  /\ rerr = [t \in Tabs |-> "none"]
  /\ opc = [t \in Tabs |-> "idle"]
  /\ caller = [t \in Tabs |-> "none"]
  /\ sources = [t \in Tabs |-> <<>>]
  /\ calls = [t \in Tabs |-> <<>>]
  /\ running = [t \in Tabs |-> {}]
  /\ outcome = [t \in Tabs |-> NoOutcome]
  /\ warned = [t \in Tabs |-> {}]
  /\ result = [t \in Tabs |-> None]
  /\ netStarted = [t \in Tabs |-> FALSE]
  /\ evict = [t \in Tabs |-> "none"]
  /\ fresh = [t \in Tabs |-> FALSE]
  /\ late = [t \in Tabs |-> FALSE]
  /\ shown = FALSE
  /\ stockWidgets = None
  /\ noteContent = None
  /\ wq = [t \in Tabs |-> <<>>]
  /\ wpc = [t \in Tabs |-> "off"]
  /\ cards = [t \in Tabs |-> {}]
  /\ editor = [t \in Tabs |-> ""]
  /\ pad = [t \in Tabs |-> "hidden"]
  /\ timer = [t \in Tabs |-> FALSE]
  /\ apc = [t \in Tabs |-> "idle"]
  /\ aticker = [t \in Tabs |-> <<>>]
  /\ dpc = [t \in Tabs |-> "idle"]
  /\ dticker = [t \in Tabs |-> <<>>]

\* No call of a pure function is under way.
EraIdle ==
  /\ eraRaw = None
  /\ eraCalled = FALSE
  /\ eraResult = FALSE

ArtistIdle ==
  /\ maRaw = None
  /\ maCalled = FALSE
  /\ maResult = FALSE

AdapterIdle ==
  /\ ad = "none"
  /\ adPos = "idle"
  /\ adArtist = None
  /\ adStatus = 0
  /\ adIds = None
  /\ adDraws = 0
  /\ adPick = None
  /\ adOut = None
  /\ adCause = "none"

TickerIdle ==
  /\ ntRaw = None
  /\ ntCalls = 0
  /\ ntOnce = None
  /\ ntTwice = None

NoCall == EraIdle /\ ArtistIdle /\ AdapterIdle /\ TickerIdle

\* Math.random() is unconstrained: the sort can produce every order.
Init ==
  /\ Closed
  /\ rng = Shuffles
  /\ NoCall

\* ------------------------------------------------------ function-update helpers
Set(f, t, v) == [f EXCEPT ![t] = v]

\* ===================================================== fetchRandomArtwork
\* The adapter whose promise the for-loop is awaiting.
Current(t) == Last(calls[t])

\* Faulty variant: every adapter is called at once (as Promise.any would).
fetchRandomArtwork_AllAtOnce(t, c) ==
  \E p \in rng :
    /\ sources' = Set(sources, t, p)
    /\ calls' = Set(calls, t, p)
    /\ running' = Set(running, t, Range(p))
    /\ outcome' = Set(outcome, t, NoOutcome)
    /\ warned' = Set(warned, t, {})
    /\ result' = Set(result, t, None)
    /\ opc' = Set(opc, t, "inflight")
    /\ caller' = Set(caller, t, c)
    /\ netStarted' = Set(netStarted, t, TRUE)

\* fetchRandomArtwork() up to its first await: shuffle the registry keys and
\* call the first adapter.  c is the awaiting caller.
fetchRandomArtwork(t, c) ==
  \E p \in rng :
    /\ sources' = Set(sources, t, p)
    /\ calls' = Set(calls, t, <<p[1]>>)
    /\ running' = Set(running, t, {p[1]})
    /\ outcome' = Set(outcome, t, NoOutcome)
    /\ warned' = Set(warned, t, {})
    /\ result' = Set(result, t, None)
    /\ opc' = Set(opc, t, "inflight")
    /\ caller' = Set(caller, t, c)
    /\ netStarted' = Set(netStarted, t, TRUE)

\* Faulty variant: the orchestrator substitutes the fallback itself when the
\* registry is exhausted.
NextSource_FallbackOnExhaustion(t) ==
  LET i == Len(calls[t]) IN
  IF i < Len(sources[t])
  THEN /\ calls' = Set(calls, t, Append(calls[t], sources[t][i + 1]))
       /\ running' = Set(running, t, (running[t] \ {Current(t)}) \cup {sources[t][i + 1]})
       /\ UNCHANGED <<opc, result>>
  ELSE /\ running' = Set(running, t, running[t] \ {Current(t)})
       /\ opc' = Set(opc, t, "returned")
       /\ result' = Set(result, t, FALLBACK)
       /\ UNCHANGED calls

\* The loop after an adapter gave nothing: call the next key, or fall out of
\* the loop and `return null`.
NextSource(t) ==
  LET i == Len(calls[t]) IN
  IF i < Len(sources[t])
  THEN /\ calls' = Set(calls, t, Append(calls[t], sources[t][i + 1]))
       /\ running' = Set(running, t, (running[t] \ {Current(t)}) \cup {sources[t][i + 1]})
       /\ UNCHANGED <<opc, result>>
  ELSE /\ running' = Set(running, t, running[t] \ {Current(t)})
       /\ opc' = Set(opc, t, "returned")
       /\ result' = Set(result, t, None)
       /\ UNCHANGED calls

\* `result = await FETCHERS[src]()` with a truthy result: return it.
AdapterResolves(t) ==
  /\ opc[t] = "inflight"
  /\ Current(t) \in running[t]
  /\ \E a \in Catalogue(Current(t)) :
       /\ result' = Set(result, t, a)
       /\ outcome' = Set(outcome, t, [outcome[t] EXCEPT ![Current(t)] = Outcome("artwork", a)])
  /\ running' = Set(running, t, running[t] \ {Current(t)})
  /\ opc' = Set(opc, t, "returned")
  /\ UNCHANGED <<slot, sq, handlerVars, renderVars, refillVars, caller, sources,
                 calls, warned, netStarted, evict, ghostVars, restVars>>

\* The adapter resolved with null ("no result"): try the next one.
AdapterResolvesNull(t) ==
  /\ opc[t] = "inflight"
  /\ Current(t) \in running[t]
  /\ outcome' = Set(outcome, t, [outcome[t] EXCEPT ![Current(t)] = Outcome("null", None)])
  /\ NextSource(t)
  /\ UNCHANGED <<slot, sq, handlerVars, renderVars, refillVars, caller, sources,
                 warned, netStarted, evict, ghostVars, restVars>>

\* Faulty variant: no try/catch around the adapter call, the rejection leaves
\* fetchRandomArtwork.
AdapterRejects_Throws(t) ==
  /\ opc[t] = "inflight"
  /\ Current(t) \in running[t]
  /\ outcome' = Set(outcome, t, [outcome[t] EXCEPT ![Current(t)] = Outcome("raise", None)])
  /\ running' = Set(running, t, running[t] \ {Current(t)})
  /\ opc' = Set(opc, t, "thrown")
  /\ UNCHANGED <<slot, sq, handlerVars, renderVars, refillVars, caller, sources,
                 calls, warned, result, netStarted, evict, ghostVars, restVars>>

\* The adapter's promise rejected (transport failure, malformed JSON): the
\* catch block logs a warning and the loop goes on.
AdapterRejects(t) ==
  /\ opc[t] = "inflight"
  /\ Current(t) \in running[t]
  /\ outcome' = Set(outcome, t, [outcome[t] EXCEPT ![Current(t)] = Outcome("raise", None)])
  /\ warned' = Set(warned, t, warned[t] \cup {Current(t)})
  /\ NextSource(t)
  /\ UNCHANGED <<slot, sq, handlerVars, renderVars, refillVars, caller, sources,
                 netStarted, evict, ghostVars, restVars>>

\* The awaiting caller has taken the return value: the run is over.
EndRun(t) ==
  /\ opc' = Set(opc, t, "idle")
  /\ caller' = Set(caller, t, "none")
  /\ sources' = Set(sources, t, <<>>)
  /\ calls' = Set(calls, t, <<>>)
  /\ running' = Set(running, t, {})
  /\ outcome' = Set(outcome, t, NoOutcome)
  /\ warned' = Set(warned, t, {})
  /\ result' = Set(result, t, None)

\* ============================================================ renderArtwork
\* renderArtwork(a): remember the record and start preloading its image.
renderArtwork(t, a) ==
  /\ rendered' = Set(rendered, t, a)
  /\ img' = Set(img, t, "loading")
  /\ loads' = Set(loads, t, loads[t] + 1)
  /\ UNCHANGED errorShown

\* img.onload: paint the background and the info card.
ImgOnLoad(t) ==
  /\ img[t] = "loading"
  /\ img' = Set(img, t, "painted")
  /\ UNCHANGED <<slot, sq, handlerVars, rendered, errorShown, loads, refillVars,
                 orchVars, netStarted, evict, ghostVars, restVars>>

\* Faulty variant: a failed image is always retried with the fallback, the
\* fallback's own image included.
ImgOnError_AlwaysRetry(t) ==
  /\ img[t] = "loading"
  /\ renderArtwork(t, FALLBACK)
  /\ UNCHANGED <<slot, sq, handlerVars, refillVars, orchVars, netStarted, evict,
                 ghostVars, restVars>>

\* Faulty variant: any failed image goes straight to the error state.
ImgOnError_AlwaysShowError(t) ==
  /\ img[t] = "loading"
  /\ errorShown' = Set(errorShown, t, TRUE)
  /\ img' = Set(img, t, "error")
  /\ UNCHANGED <<rendered, loads>>
  /\ UNCHANGED <<slot, sq, handlerVars, refillVars, orchVars, netStarted, evict,
                 ghostVars, restVars>>

\* img.onerror: showError() for the fallback, renderArtwork(FALLBACK) for
\* anything else.  (No record of the catalogue and no cached entry has the
\* content of FALLBACK, so equal content here is object identity.)
ImgOnError(t) ==
  /\ img[t] = "loading"
  /\ IF rendered[t] = FALLBACK
     THEN /\ errorShown' = Set(errorShown, t, TRUE)
          /\ img' = Set(img, t, "error")
          /\ UNCHANGED <<rendered, loads>>
     ELSE renderArtwork(t, FALLBACK)
  /\ UNCHANGED <<slot, sq, handlerVars, refillVars, orchVars, netStarted,
                 evict, ghostVars, restVars>>

\* ========================================================= prefetchAndCache
\* prefetchAndCache() up to its first await: `await fetchRandomArtwork()`.
prefetchAndCache(t) ==
  /\ rpc' = Set(rpc, t, "fetch")
  /\ UNCHANGED <<rart, rbody, rerr>>
  /\ fetchRandomArtwork(t, "refill")

\* Faulty variant: the refill caches the fallback when the orchestrator
\* returned null (`artwork ?? FALLBACK`).
RefillResume_CacheFallback(t) ==
  /\ rpc[t] = "fetch"
  /\ opc[t] = "returned"
  /\ caller[t] = "refill"
  /\ rpc' = Set(rpc, t, "enc_fetch")
  /\ rart' = Set(rart, t, IF result[t] = None THEN FALLBACK ELSE result[t])
  /\ EndRun(t)
  /\ UNCHANGED <<slot, sq, handlerVars, renderVars, rbody, rerr, netStarted,
                 evict, ghostVars, restVars>>

\* The orchestrator returned to prefetchAndCache: `if (!artwork) return;`,
\* else toDataUrl(artwork.imageUrl) is called and issues fetch(imageUrl).
RefillResume(t) ==
  /\ rpc[t] = "fetch"
  /\ opc[t] = "returned"
  /\ caller[t] = "refill"
  /\ IF result[t] = None
     THEN /\ rpc' = Set(rpc, t, "skipped")
          /\ UNCHANGED rart
     ELSE /\ rpc' = Set(rpc, t, "enc_fetch")
          /\ rart' = Set(rart, t, result[t])
  /\ EndRun(t)
  /\ UNCHANGED <<slot, sq, handlerVars, renderVars, rbody, rerr, netStarted,
                 evict, ghostVars, restVars>>

\* Faulty variant: no try/catch, the promise of prefetchAndCache rejects.
RefillCatch_Rethrow(t, err) ==
  /\ rpc' = Set(rpc, t, "rejected")
  /\ rerr' = Set(rerr, t, err)
  /\ UNCHANGED <<rart, rbody>>

\* The catch block of prefetchAndCache: console.warn and return normally.
RefillCatch(t, err) ==
  /\ rpc' = Set(rpc, t, "failed")
  /\ rerr' = Set(rerr, t, err)
  /\ UNCHANGED <<rart, rbody>>

\* toDataUrl: `await fetch(imageUrl)` resolved.  fetch resolves for every
\* HTTP status; the body is the image or whatever the error response carries.
EncFetchResolves(t) ==
  /\ rpc[t] = "enc_fetch"
  /\ \E b \in {"image", "errorbody"} : rbody' = Set(rbody, t, b)
  /\ rpc' = Set(rpc, t, "enc_blob")
  /\ UNCHANGED <<slot, sq, handlerVars, renderVars, rart, rerr, orchVars,
                 netStarted,
                 evict, ghostVars, restVars>>

\* toDataUrl: fetch(imageUrl) rejected (network failure).
EncFetchRejects(t) ==
  /\ rpc[t] = "enc_fetch"
  /\ RefillCatch(t, "fetch rejected")
  /\ UNCHANGED <<slot, sq, handlerVars, renderVars, orchVars, netStarted,
                 evict, ghostVars, restVars>>

\* toDataUrl: `await res.blob()` resolved; the FileReader starts reading.
EncBlobResolves(t) ==
  /\ rpc[t] = "enc_blob"
  /\ rpc' = Set(rpc, t, "enc_read")
  /\ UNCHANGED <<slot, sq, handlerVars, renderVars, rart, rbody, rerr, orchVars,
                 netStarted, evict, ghostVars, restVars>>

\* toDataUrl: res.blob() rejected (the body could not be read).
EncBlobRejects(t) ==
  /\ rpc[t] = "enc_blob"
  /\ RefillCatch(t, "blob rejected")
  /\ UNCHANGED <<slot, sq, handlerVars, renderVars, orchVars, netStarted,
                 evict, ghostVars, restVars>>

\* reader.result
ReaderResult(b) == IF b = "image" THEN DataUrlImage ELSE DataUrlErrorBody

\* Faulty variant: once the new artwork is encoded the refill also shows it.
EncReaderLoads_Rerender(t) ==
  /\ rpc[t] = "enc_read"
  /\ sq' = Set(sq, t, Append(sq[t],
             [op |-> "set", value |-> WithDataUrl(rart[t], ReaderResult(rbody[t]))]))
  /\ rpc' = Set(rpc, t, "set")
  /\ renderArtwork(t, rart[t])
  /\ UNCHANGED <<slot, handlerVars, rart, rbody, rerr, orchVars,
                 netStarted, evict, ghostVars, restVars>>

\* toDataUrl: reader.onload resolves the data URL and prefetchAndCache sends
\* chrome.storage.local.set({ ready: { ...artwork, dataUrl } }).
EncReaderLoads(t) ==
  /\ rpc[t] = "enc_read"
  /\ sq' = Set(sq, t, Append(sq[t],
             [op |-> "set", value |-> WithDataUrl(rart[t], ReaderResult(rbody[t]))]))
  /\ rpc' = Set(rpc, t, "set")
  /\ UNCHANGED <<slot, handlerVars, renderVars, rart, rbody, rerr, orchVars,
                 netStarted, evict, ghostVars, restVars>>

\* toDataUrl: reader.onerror rejects.
EncReaderFails(t) ==
  /\ rpc[t] = "enc_read"
  /\ RefillCatch(t, "reader error")
  /\ UNCHANGED <<slot, sq, handlerVars, renderVars, orchVars, netStarted,
                 evict, ghostVars, restVars>>

\* ================================================== chrome.storage.local
\* Faulty variant: the refill is launched before the cached artwork is rendered.
HitOrder_PrefetchFirst == <<"hit_remove", "hit_prefetch", "hit_render">>

\* Faulty variant: the cached artwork is rendered before the entry is removed.
HitOrder_RenderFirst == <<"hit_render", "hit_remove", "hit_prefetch">>

\* Faulty variant: the refill is launched before the entry is removed.
HitOrder_PrefetchBeforeRemove == <<"hit_prefetch", "hit_remove", "hit_render">>

\* Statement order of the cache-hit branch: remove, render, prefetch.
HitOrder == <<"hit_remove", "hit_render", "hit_prefetch">>

\* Faulty variant: the refill is launched before the fetched artwork is
\* rendered.
MissOrder_PrefetchFirst == <<"miss_fetch", "miss_prefetch", "miss_render">>

\* Statement order of the cache-miss branch: await fetch, render, prefetch.
MissOrder == <<"miss_fetch", "miss_render", "miss_prefetch">>

StatementAfter(order, p) ==
  LET i == CHOOSE j \in DOMAIN order : order[j] = p
  IN  IF i < Len(order) THEN order[i + 1] ELSE "done"

HeadOp(t) == IF sq[t] = <<>> THEN "none" ELSE Head(sq[t]).op

\* Faulty variant: the handler never takes the cache-hit branch.
StorageGet_AlwaysMiss(t) ==
  /\ HeadOp(t) = "get"
  /\ sq' = Set(sq, t, Tail(sq[t]))
  /\ IF pc[t] = "await_get"
     THEN /\ ready' = Set(ready, t, slot)
          /\ branch' = Set(branch, t, "cold")
          /\ pc' = Set(pc, t, MissOrder[1])
          /\ fresh' = Set(fresh, t, HasDataUrl(slot))
     ELSE UNCHANGED <<pc, branch, ready, fresh>>
  /\ UNCHANGED <<late, shown>>
  /\ UNCHANGED <<slot, artwork, renderVars, refillVars, orchVars, netStarted,
                 evict, restVars>>

\* get('ready') processed: the handler resumes with `ready` and takes the
\* cache-hit branch iff ready?.dataUrl is truthy.
StorageGet(t) ==
  /\ HeadOp(t) = "get"
  /\ sq' = Set(sq, t, Tail(sq[t]))
  /\ IF pc[t] = "await_get"
     THEN /\ ready' = Set(ready, t, slot)
          /\ branch' = Set(branch, t, IF HasDataUrl(slot) THEN "warm" ELSE "cold")
          /\ pc' = Set(pc, t, IF HasDataUrl(slot) THEN HitOrder[1] ELSE MissOrder[1])
          /\ fresh' = Set(fresh, t, HasDataUrl(slot))
     ELSE UNCHANGED <<pc, branch, ready, fresh>>
  /\ UNCHANGED <<late, shown>>
  /\ UNCHANGED <<slot, artwork, renderVars, refillVars, orchVars, netStarted,
                 evict, restVars>>

\* get('ready') failed: the awaiting handler's promise rejects.
StorageGetFails(t) ==
  /\ HeadOp(t) = "get"
  /\ sq' = Set(sq, t, Tail(sq[t]))
  /\ pc' = Set(pc, t, IF pc[t] = "await_get" THEN "rejected" ELSE pc[t])
  /\ UNCHANGED <<slot, branch, ready, artwork, renderVars, refillVars, orchVars,
                 netStarted, evict, ghostVars, restVars>>

\* remove('ready') processed.  Nobody awaits it.
StorageRemove(t) ==
  /\ HeadOp(t) = "remove"
  /\ sq' = Set(sq, t, Tail(sq[t]))
  /\ slot' = None
  /\ evict' = Set(evict, t, IF evict[t] = "issued" THEN "effective" ELSE evict[t])
  /\ shown' = FALSE
  /\ UNCHANGED <<handlerVars, renderVars, refillVars, orchVars, netStarted,
                 fresh, late, restVars>>

\* remove('ready') failed: the entry stays; the rejection has no handler.
StorageRemoveFails(t) ==
  /\ HeadOp(t) = "remove"
  /\ sq' = Set(sq, t, Tail(sq[t]))
  /\ evict' = Set(evict, t, IF evict[t] = "issued" THEN "failed" ELSE evict[t])
  /\ UNCHANGED <<slot, handlerVars, renderVars, refillVars, orchVars,
                 netStarted, ghostVars, restVars>>

\* Faulty variant: the write keeps an entry that is already there.
StorageSet_KeepPresent(t) ==
  /\ HeadOp(t) = "set"
  /\ sq' = Set(sq, t, Tail(sq[t]))
  /\ slot' = IF slot = None THEN Head(sq[t]).value ELSE slot
  /\ rpc' = Set(rpc, t, IF rpc[t] = "set" THEN "cached" ELSE rpc[t])
  /\ fresh' = [u \in Tabs |-> FALSE]
  /\ late' = [u \in Tabs |-> FALSE]
  /\ shown' = FALSE
  /\ UNCHANGED <<handlerVars, renderVars, rart, rbody, rerr, orchVars, netStarted,
                 evict, restVars>>

\* set({ready: ...}) processed: the entry replaces whatever the slot held and
\* prefetchAndCache logs "Cached".
StorageSet(t) ==
  /\ HeadOp(t) = "set"
  /\ sq' = Set(sq, t, Tail(sq[t]))
  /\ slot' = Head(sq[t]).value
  /\ rpc' = Set(rpc, t, IF rpc[t] = "set" THEN "cached" ELSE rpc[t])
  /\ fresh' = [u \in Tabs |-> FALSE]
  /\ late' = [u \in Tabs |-> FALSE]
  /\ shown' = FALSE
  /\ UNCHANGED <<handlerVars, renderVars, rart, rbody, rerr, orchVars,
                 netStarted,
                 evict, restVars>>

\* set({ready: ...}) failed (quota, I/O): the await throws into the catch.
StorageSetFails(t) ==
  /\ HeadOp(t) = "set"
  /\ sq' = Set(sq, t, Tail(sq[t]))
  /\ IF rpc[t] = "set" THEN RefillCatch(t, "set rejected") ELSE UNCHANGED refillVars
  /\ UNCHANGED <<slot, handlerVars, renderVars, orchVars, netStarted, evict,
                 ghostVars, restVars>>

\* ================================================ DOMContentLoaded handler
\* The open session of tab u has read the entry of the latest write and sent
\* its remove: it has consumed the slot, and no refill has written since.
Consumer(u) == fresh[u] /\ evict[u] # "none"

\* initWidget() up to its first await, the get inside loadSavedTickers().
initWidget(t) ==
  /\ wpc' = Set(wpc, t, "load_tickers")
  /\ wq' = Set(wq, t, Append(wq[t], [op |-> "getTickers", by |-> "init"]))
  /\ UNCHANGED <<stockWidgets, noteContent, cards, editor, pad, timer, apc,
                 aticker, dpc, dticker>>

\* A new tab: DOMContentLoaded fires and the handler calls initWidget() and
\* runs to `await chrome.storage.local.get('ready')`.
Open(t) ==
  /\ pc[t] = "closed"
  /\ sq[t] = <<>>
  /\ pc' = Set(pc, t, "await_get")
  /\ sq' = Set(sq, t, <<[op |-> "get"]>>)
  /\ late' = Set(late, t, \E u \in Tabs \ {t} : Consumer(u))
  /\ UNCHANGED <<fresh, shown>>
  /\ initWidget(t)
  /\ UNCHANGED <<slot, branch, ready, artwork, renderVars, refillVars, orchVars,
                 netStarted, evict, rng, pureVars>>

\* chrome.storage.local.remove('ready'), not awaited.
HitRemove(t) ==
  /\ pc[t] = "hit_remove"
  /\ sq' = Set(sq, t, Append(sq[t], [op |-> "remove"]))
  /\ evict' = Set(evict, t, "issued")
  /\ pc' = Set(pc, t, StatementAfter(HitOrder, "hit_remove"))
  /\ UNCHANGED <<slot, branch, ready, artwork, renderVars, refillVars, orchVars,
                 netStarted, ghostVars, restVars>>

\* renderArtwork(ready)
HitRender(t) ==
  /\ pc[t] = "hit_render"
  /\ renderArtwork(t, ready[t])
  /\ pc' = Set(pc, t, StatementAfter(HitOrder, "hit_render"))
  /\ shown' = (shown \/ (fresh[t] /\ slot # None))
  /\ UNCHANGED <<slot, sq, branch, ready, artwork, refillVars, orchVars,
                 netStarted, evict, fresh, late, restVars>>

\* prefetchAndCache(), not awaited (cache-hit branch)
HitPrefetch(t) ==
  /\ pc[t] = "hit_prefetch"
  /\ prefetchAndCache(t)
  /\ pc' = Set(pc, t, StatementAfter(HitOrder, "hit_prefetch"))
  /\ UNCHANGED <<slot, sq, branch, ready, artwork, renderVars, evict,
                 ghostVars, restVars>>

\* `await fetchRandomArtwork()` of the cache-miss branch: the call
MissFetch(t) ==
  /\ pc[t] = "miss_fetch"
  /\ fetchRandomArtwork(t, "handler")
  /\ pc' = Set(pc, t, "miss_await")
  /\ UNCHANGED <<slot, sq, branch, ready, artwork, renderVars, refillVars,
                 evict, ghostVars, restVars>>

\* Faulty variant: a watchdog resumes the handler, with nothing, while an
\* adapter is still in flight.
MissResume_Watchdog(t) ==
  /\ pc[t] = "miss_await"
  /\ opc[t] \in {"inflight", "returned"}
  /\ caller[t] = "handler"
  /\ artwork' = Set(artwork, t, result[t])
  /\ pc' = Set(pc, t, StatementAfter(MissOrder, "miss_fetch"))
  /\ EndRun(t)
  /\ UNCHANGED <<slot, sq, branch, ready, renderVars, refillVars, netStarted,
                 evict, ghostVars, restVars>>

\* `await fetchRandomArtwork()` of the cache-miss branch: the resumption
MissResume(t) ==
  /\ pc[t] = "miss_await"
  /\ opc[t] = "returned"
  /\ caller[t] = "handler"
  /\ artwork' = Set(artwork, t, result[t])
  /\ pc' = Set(pc, t, StatementAfter(MissOrder, "miss_fetch"))
  /\ EndRun(t)
  /\ UNCHANGED <<slot, sq, branch, ready, renderVars, refillVars, netStarted,
                 evict, ghostVars, restVars>>

\* Faulty variant (the page's earlier, uncached entry point):
\* `if (artwork) renderArtwork(artwork); else showError();`
MissRender_ShowErrorOnNull(t) ==
  /\ pc[t] = "miss_render"
  /\ IF artwork[t] = None
     THEN /\ errorShown' = Set(errorShown, t, TRUE)
          /\ UNCHANGED <<rendered, img, loads>>
     ELSE renderArtwork(t, artwork[t])
  /\ pc' = Set(pc, t, StatementAfter(MissOrder, "miss_render"))
  /\ UNCHANGED <<slot, sq, branch, ready, artwork, refillVars, orchVars,
                 netStarted, evict, ghostVars, restVars>>

\* renderArtwork(artwork ?? FALLBACK)
MissRender(t) ==
  /\ pc[t] = "miss_render"
  /\ renderArtwork(t, IF artwork[t] = None THEN FALLBACK ELSE artwork[t])
  /\ pc' = Set(pc, t, StatementAfter(MissOrder, "miss_render"))
  /\ UNCHANGED <<slot, sq, branch, ready, artwork, refillVars, orchVars,
                 netStarted, evict, ghostVars, restVars>>

\* prefetchAndCache(), not awaited (cache-miss branch)
MissPrefetch(t) ==
  /\ pc[t] = "miss_prefetch"
  /\ prefetchAndCache(t)
  /\ pc' = Set(pc, t, StatementAfter(MissOrder, "miss_prefetch"))
  /\ UNCHANGED <<slot, sq, branch, ready, artwork, renderVars, evict,
                 ghostVars, restVars>>

\* The widget of a closed page: its DOM, timers and pending functions are
\* gone.  Reads whose answer nobody waits for any more are dropped, writes
\* already sent stay in the store's queue and resume nobody.
WidgetGone(t) ==
  /\ wpc' = Set(wpc, t, "off")
  /\ cards' = Set(cards, t, {})
  /\ editor' = Set(editor, t, "")
  /\ pad' = Set(pad, t, "hidden")
  /\ timer' = Set(timer, t, FALSE)
  /\ apc' = Set(apc, t, "idle")
  /\ aticker' = Set(aticker, t, <<>>)
  /\ dpc' = Set(dpc, t, "idle")
  /\ dticker' = Set(dticker, t, <<>>)
  /\ wq' = Set(wq, t,
             LET writes == SelectSeq(wq[t], LAMBDA r : r.op \notin {"getTickers", "getNote"})
             IN  [i \in DOMAIN writes |-> [writes[i] EXCEPT !.by = "nobody"]])
  /\ UNCHANGED <<stockWidgets, noteContent>>

\* The tab is closed: the page context and everything running in it is gone.
\* Requests already sent to the store stay in its queue.
Close(t) ==
  /\ pc[t] # "closed"
  /\ pc' = Set(pc, t, "closed")
  /\ branch' = Set(branch, t, "none")
  /\ ready' = Set(ready, t, None)
  /\ artwork' = Set(artwork, t, None)
  /\ rendered' = Set(rendered, t, None)
  /\ img' = Set(img, t, "none")
  /\ errorShown' = Set(errorShown, t, FALSE)
  /\ loads' = Set(loads, t, 0)
  /\ rpc' = Set(rpc, t, "idle")
  /\ rart' = Set(rart, t, None)
  /\ rbody' = Set(rbody, t, "none")
  /\ rerr' = Set(rerr, t, "none")
  /\ EndRun(t)
  /\ netStarted' = Set(netStarted, t, FALSE)
  /\ evict' = Set(evict, t, "none")
  /\ fresh' = Set(fresh, t, FALSE)
  /\ late' = Set(late, t, FALSE)
  /\ shown' = (shown /\ \E u \in Tabs \ {t} : pc[u] # "closed")
  /\ WidgetGone(t)
  /\ UNCHANGED <<slot, sq, rng, pureVars>>

\* ==================================================== stock and note widget
\* The store answers the widget's requests, on keys 'stockWidgets' and
\* 'noteContent', from a queue of their own: they never name key 'ready',
\* so their order relative to the controller's requests decides nothing.
\* (Failing widget requests and the periodic refreshAllTickers, which only
\* reads the list and fetches quotes, are left out.)
WHeadOp(t) == IF wq[t] = <<>> THEN "none" ELSE Head(wq[t]).op

\* the head request is answered and the resumed function sends r
WSend(t, r) == wq' = Set(wq, t, Append(Tail(wq[t]), r))

\* the page can send one more request
CanSend(t) == Len(wq[t]) < MaxSent

\* loadSavedTickers(): Array.isArray(stockWidgets) ? stockWidgets : []
SavedTickers == IF stockWidgets = None THEN <<>> ELSE stockWidgets.list

\* get('stockWidgets') answered to initWidget: a card per saved ticker, then
\* loadNoteHtml() sends get('noteContent').
InitTickersLoaded(t) ==
  /\ WHeadOp(t) = "getTickers"
  /\ Head(wq[t]).by = "init"
  /\ cards' = Set(cards, t, cards[t] \cup Range(SavedTickers))
  /\ wpc' = Set(wpc, t, "load_note")
  /\ WSend(t, [op |-> "getNote", by |-> "init"])
  /\ UNCHANGED <<stockWidgets, noteContent, editor, pad, timer, apc, aticker, dpc,
                 dticker>>
  /\ UNCHANGED <<controllerVars, pureVars>>

\* get('noteContent') answered to initWidget: a saved note is put into the
\* editor and the pad shown; initNoteEditor seeds an empty editor; the
\* buttons and inputs get their listeners.
InitNoteLoaded(t) ==
  /\ WHeadOp(t) = "getNote"
  /\ wq' = Set(wq, t, Tail(wq[t]))
  /\ IF noteContent # None /\ noteContent.html # ""
     THEN /\ editor' = Set(editor, t, noteContent.html)
          /\ pad' = Set(pad, t, "open")
     ELSE /\ editor' = Set(editor, t, EditorBlank)
          /\ UNCHANGED pad
  /\ wpc' = Set(wpc, t, "ready")
  /\ UNCHANGED <<stockWidgets, noteContent, cards, timer, apc, aticker, dpc, dticker>>
  /\ UNCHANGED <<controllerVars, pureVars>>

\* Enter in the stock input: addTicker(raw) up to `await loadSavedTickers()`.
addTicker(t, raw) ==
  /\ wpc[t] = "ready"
  /\ apc[t] = "idle"
  /\ CanSend(t)
  /\ Trim(raw) # <<>>
  /\ LET ticker == normalizeTicker(Trim(raw)) IN
     IF ticker = <<>>
     THEN UNCHANGED <<wq, apc, aticker>>
     ELSE /\ aticker' = Set(aticker, t, ticker)
          /\ apc' = Set(apc, t, "load")
          /\ wq' = Set(wq, t, Append(wq[t], [op |-> "getTickers", by |-> "add"]))
  /\ UNCHANGED <<stockWidgets, noteContent, wpc, cards, editor, pad, timer, dpc,
                 dticker>>
  /\ UNCHANGED <<controllerVars, pureVars>>

\* addTicker resumes with the list: return if the ticker is in it, else push
\* it and `await saveTickerList(list)`.
AddListLoaded(t) ==
  /\ WHeadOp(t) = "getTickers"
  /\ Head(wq[t]).by = "add"
  /\ IF aticker[t] \in Range(SavedTickers)
     THEN /\ wq' = Set(wq, t, Tail(wq[t]))
          /\ apc' = Set(apc, t, "idle")
          /\ aticker' = Set(aticker, t, <<>>)
     ELSE /\ WSend(t, [op |-> "setTickers", by |-> "add",
                       value |-> Arr(Append(SavedTickers, aticker[t]))])
          /\ apc' = Set(apc, t, "save")
          /\ UNCHANGED aticker
  /\ UNCHANGED <<stockWidgets, noteContent, wpc, cards, editor, pad, timer, dpc,
                 dticker>>
  /\ UNCHANGED <<controllerVars, pureVars>>

\* fetchStockQuote(ticker) has answered: upsertCard(ticker, data).
QuoteArrives(t) ==
  /\ apc[t] = "quote"
  /\ apc' = Set(apc, t, "idle")
  /\ aticker' = Set(aticker, t, <<>>)
  /\ UNCHANGED <<stockWidgets, noteContent, wq, wpc, cards, editor, pad, timer,
                 dpc, dticker>>
  /\ UNCHANGED <<controllerVars, pureVars>>

\* Click on a card's remove button: removeTicker(ticker) up to
\* `await loadSavedTickers()`.
removeTicker(t, ticker) ==
  /\ ticker \in cards[t]
  /\ CanSend(t)
  /\ dpc[t] = "idle"
  /\ dticker' = Set(dticker, t, ticker)
  /\ dpc' = Set(dpc, t, "load")
  /\ wq' = Set(wq, t, Append(wq[t], [op |-> "getTickers", by |-> "remove"]))
  /\ UNCHANGED <<stockWidgets, noteContent, wpc, cards, editor, pad, timer, apc,
                 aticker>>
  /\ UNCHANGED <<controllerVars, pureVars>>

\* removeTicker resumes with the list: filter the ticker out and
\* `await saveTickerList(updated)`.
RemoveListLoaded(t) ==
  /\ WHeadOp(t) = "getTickers"
  /\ Head(wq[t]).by = "remove"
  /\ WSend(t, [op |-> "setTickers", by |-> "remove",
               value |-> Arr(SelectSeq(SavedTickers, LAMBDA x : x # dticker[t]))])
  /\ dpc' = Set(dpc, t, "save")
  /\ UNCHANGED <<stockWidgets, noteContent, wpc, cards, editor, pad, timer, apc,
                 aticker, dticker>>
  /\ UNCHANGED <<controllerVars, pureVars>>

\* set({stockWidgets: list}) processed; the awaiting function goes on:
\* addTicker inserts the card and asks for the quote, removeTicker takes
\* the card out.
TickersSaved(t) ==
  /\ WHeadOp(t) = "setTickers"
  /\ wq' = Set(wq, t, Tail(wq[t]))
  /\ stockWidgets' = Head(wq[t]).value
  /\ IF Head(wq[t]).by = "add"
     THEN /\ cards' = Set(cards, t, cards[t] \cup {aticker[t]})
          /\ apc' = Set(apc, t, "quote")
          /\ UNCHANGED <<dpc, dticker>>
     ELSE IF Head(wq[t]).by = "remove"
     THEN /\ cards' = Set(cards, t, cards[t] \ {dticker[t]})
          /\ dpc' = Set(dpc, t, "idle")
          /\ dticker' = Set(dticker, t, <<>>)
          /\ UNCHANGED apc
     ELSE UNCHANGED <<cards, apc, dpc, dticker>>
  /\ UNCHANGED <<noteContent, wpc, editor, pad, timer, aticker>>
  /\ UNCHANGED <<controllerVars, pureVars>>

\* "Note" in the add menu: show the pad.
NoteOpen(t) ==
  /\ wpc[t] = "ready"
  /\ pad[t] = "hidden"
  /\ pad' = Set(pad, t, "open")
  /\ UNCHANGED <<stockWidgets, noteContent, wq, wpc, cards, editor, timer, apc,
                 aticker, dpc, dticker>>
  /\ UNCHANGED <<controllerVars, pureVars>>

\* 'input' on the editor: debouncedSaveNote() (re)starts the timer.
NoteInput(t) ==
  /\ wpc[t] = "ready"
  /\ pad[t] = "open"
  /\ \E h \in NoteTexts : editor' = Set(editor, t, h)
  /\ timer' = Set(timer, t, TRUE)
  /\ UNCHANGED <<stockWidgets, noteContent, wq, wpc, cards, pad, apc, aticker, dpc,
                 dticker>>
  /\ UNCHANGED <<controllerVars, pureVars>>

\* The debounce timer fires: _saveNote() sends set({noteContent: innerHTML}).
_saveNote(t) ==
  /\ timer[t]
  /\ CanSend(t)
  /\ timer' = Set(timer, t, FALSE)
  /\ wq' = Set(wq, t, Append(wq[t], [op |-> "setNote", by |-> "note",
                                      value |-> Html(editor[t])]))
  /\ UNCHANGED <<stockWidgets, noteContent, wpc, cards, editor, pad, apc, aticker,
                 dpc, dticker>>
  /\ UNCHANGED <<controllerVars, pureVars>>

\* The erase button: blank the editor, remove('noteContent') (not awaited).
NoteErase(t) ==
  /\ wpc[t] = "ready"
  /\ CanSend(t)
  /\ pad[t] = "open"
  /\ editor' = Set(editor, t, EditorBlank)
  /\ wq' = Set(wq, t, Append(wq[t], [op |-> "removeNote", by |-> "note"]))
  /\ UNCHANGED <<stockWidgets, noteContent, wpc, cards, pad, timer, apc, aticker,
                 dpc, dticker>>
  /\ UNCHANGED <<controllerVars, pureVars>>

\* The close button: blank the editor, remove('noteContent') (not awaited),
\* hide the pad.
NoteClose(t) ==
  /\ wpc[t] = "ready"
  /\ CanSend(t)
  /\ pad[t] = "open"
  /\ editor' = Set(editor, t, EditorBlank)
  /\ pad' = Set(pad, t, "hidden")
  /\ wq' = Set(wq, t, Append(wq[t], [op |-> "removeNote", by |-> "note"]))
  /\ UNCHANGED <<stockWidgets, noteContent, wpc, cards, timer, apc, aticker, dpc,
                 dticker>>
  /\ UNCHANGED <<controllerVars, pureVars>>

\* set({noteContent: html}) processed.
NoteSaved(t) ==
  /\ WHeadOp(t) = "setNote"
  /\ wq' = Set(wq, t, Tail(wq[t]))
  /\ noteContent' = Head(wq[t]).value
  /\ UNCHANGED <<stockWidgets, widgetPage>>
  /\ UNCHANGED <<controllerVars, pureVars>>

\* Faulty variant: the note is erased with chrome.storage.local.clear(),
\* which takes every key of the store with it.
NoteRemoved_ClearsStore(t) ==
  /\ WHeadOp(t) = "removeNote"
  /\ wq' = Set(wq, t, Tail(wq[t]))
  /\ noteContent' = None
  /\ stockWidgets' = None
  /\ slot' = None
  /\ UNCHANGED widgetPage
  /\ UNCHANGED <<sq, handlerVars, renderVars, refillVars, orchVars, netStarted,
                 evict, ghostVars, rng, pureVars>>

\* remove('noteContent') processed.
NoteRemoved(t) ==
  /\ WHeadOp(t) = "removeNote"
  /\ wq' = Set(wq, t, Tail(wq[t]))
  /\ noteContent' = None
  /\ UNCHANGED <<stockWidgets, widgetPage>>
  /\ UNCHANGED <<controllerVars, pureVars>>

\* ------------------------------------------------------------ specification
TabStep(t) ==
  \/ Open(t)
  \/ StorageGet(t)
  \/ StorageGetFails(t)
  \/ HitRemove(t)
  \/ HitRender(t)
  \/ HitPrefetch(t)
  \/ MissFetch(t)
  \/ MissResume(t)
  \/ MissRender(t)
  \/ MissPrefetch(t)
  \/ AdapterResolves(t)
  \/ AdapterResolvesNull(t)
  \/ AdapterRejects(t)
  \/ RefillResume(t)
  \/ EncFetchResolves(t)
  \/ EncFetchRejects(t)
  \/ EncBlobResolves(t)
  \/ EncBlobRejects(t)
  \/ EncReaderLoads(t)
  \/ EncReaderFails(t)
  \/ StorageRemove(t)
  \/ StorageRemoveFails(t)
  \/ StorageSet(t)
  \/ StorageSetFails(t)
  \/ ImgOnLoad(t)
  \/ ImgOnError(t)
  \/ Close(t)

Next == \E t \in SoloTabs : TabStep(t)

Spec == Init /\ [][Next]_vars

\* Two tabs side by side.  To keep the product of the two pages finite and
\* small the random source is pinned to the declaration order, and the runs
\* are those in which every adapter call answers with an artwork, no read
\* or write of the store and no image download fails, and the <img> events
\* are left out.
TabsInit ==
  /\ Closed
  /\ rng = {FETCHERS}
  /\ NoCall

TabsStep(t) ==
  \/ Open(t)
  \/ StorageGet(t)
  \/ HitRemove(t)
  \/ HitRender(t)
  \/ HitPrefetch(t)
  \/ MissFetch(t)
  \/ MissResume(t)
  \/ MissRender(t)
  \/ MissPrefetch(t)
  \/ AdapterResolves(t)
  \/ RefillResume(t)
  \/ EncFetchResolves(t)
  \/ EncBlobResolves(t)
  \/ EncReaderLoads(t)
  \/ StorageRemove(t)
  \/ StorageRemoveFails(t)
  \/ StorageSet(t)
  \/ Close(t)

TabsNext == \E t \in Tabs : TabsStep(t)

TabsSpec == TabsInit /\ [][TabsNext]_vars

\* inImpressionistEra applied to one date string (the adapters call it on the
\* date field of every candidate record).
EraInit ==
  /\ Closed
  /\ rng = Shuffles
  /\ eraRaw \in DateInputs
  /\ eraCalled = FALSE
  /\ eraResult = FALSE
  /\ ArtistIdle
  /\ AdapterIdle
  /\ TickerIdle

EraCall ==
  /\ ~eraCalled
  /\ eraCalled' = TRUE
  /\ eraResult' = inImpressionistEra(eraRaw)
  /\ UNCHANGED <<controllerVars, widgetVars, eraRaw, artistVars, adapterVars,
                 tickerVars>>

EraNext == EraCall

EraSpec == EraInit /\ [][EraNext]_vars

\* matchesArtist applied to one attribution string (the adapters call it on
\* the attribution of every candidate record).
ArtistInit ==
  /\ Closed
  /\ rng = Shuffles
  /\ EraIdle
  /\ AdapterIdle
  /\ TickerIdle
  /\ maRaw \in ArtistInputs
  /\ maCalled = FALSE
  /\ maResult = FALSE

ArtistCall ==
  /\ ~maCalled
  /\ maCalled' = TRUE
  /\ maResult' = matchesArtist(maRaw)
  /\ UNCHANGED <<controllerVars, widgetVars, eraVars, maRaw, adapterVars,
                 tickerVars>>

ArtistNext == ArtistCall

ArtistSpec == ArtistInit /\ [][ArtistNext]_vars

\* ------------------------------------------------------- one adapter call
\* One call of one adapter, against a museum whose answers are not
\* constrained: any status, a body that does not parse, or a JSON object whose
\* fields are present or not.
adapterFrame == <<controllerVars, widgetVars, eraVars, artistVars, tickerVars>>

\* const artist = pickArtist(); const search = await fetch(...)
fetchFromMet ==
  /\ ad = "none"
  /\ ad' = "met"
  /\ adPos' = "fetch"
  /\ \E a \in QueryArtists : adArtist' = Str(a)
  /\ UNCHANGED <<adStatus, adIds, adDraws, adPick, adOut, adCause, adapterFrame>>

\* const page = ...; const res = await fetch(...)
fetchFromAIC ==
  /\ ad = "none"
  /\ ad' = "aic"
  /\ adPos' = "fetch"
  /\ UNCHANGED <<adArtist, adStatus, adIds, adDraws, adPick, adOut, adCause,
                 adapterFrame>>

fetchFromVAM ==
  /\ ad = "none"
  /\ ad' = "vam"
  /\ adPos' = "fetch"
  /\ \E a \in QueryArtists : adArtist' = Str(a)
  /\ UNCHANGED <<adStatus, adIds, adDraws, adPick, adOut, adCause, adapterFrame>>

fetchFromCleveland ==
  /\ ad = "none"
  /\ ad' = "cleveland"
  /\ adPos' = "fetch"
  /\ \E a \in QueryArtists : adArtist' = Str(a)
  /\ UNCHANGED <<adStatus, adIds, adDraws, adPick, adOut, adCause, adapterFrame>>

\* fetch() rejects (no connection): the await throws, nothing in the adapter
\* catches it
FetchRejects ==
  /\ adPos \in {"fetch", "drawfetch"}
  /\ adPos' = "raised"
  /\ adCause' = "transport"
  /\ UNCHANGED <<ad, adArtist, adStatus, adIds, adDraws, adPick, adOut,
                 adapterFrame>>

\* fetch() resolves, whatever the status: the adapter goes on to .json()
FetchResolves ==
  /\ adPos \in {"fetch", "drawfetch"}
  /\ \E st \in Statuses : adStatus' = st
  /\ adPos' = IF adPos = "fetch" THEN "json" ELSE "drawjson"
  /\ UNCHANGED <<ad, adArtist, adIds, adDraws, adPick, adOut, adCause,
                 adapterFrame>>

\* .json() rejects: the body is not JSON
JsonRejects ==
  /\ adPos \in {"json", "drawjson"}
  /\ adPos' = "raised"
  /\ adCause' = "json"
  /\ UNCHANGED <<ad, adArtist, adStatus, adIds, adDraws, adPick, adOut,
                 adapterFrame>>

\* const { objectIDs } = await search.json();
\* if (!objectIDs?.length) return null;  else the first record is fetched
MetSearchParsed ==
  /\ ad = "met"
  /\ adPos = "json"
  /\ \E ids \in MetIdLists :
       /\ adIds' = ids
       /\ IF ids = None \/ ids.list = <<>>
          THEN adPos' = "returned" /\ adDraws' = adDraws
          ELSE adPos' = "drawfetch" /\ adDraws' = adDraws + 1
  /\ UNCHANGED <<ad, adArtist, adStatus, adPick, adOut, adCause, adapterFrame>>

MetRecordParsed_OneDraw ==
  /\ ad = "met"
  /\ adPos = "drawjson"
  /\ \E obj \in MetRecords :
       /\ adPick' = obj
       /\ IF obj \in MetValid
          THEN /\ adOut' = MetArtwork(obj, adArtist.chars)
               /\ adPos' = "returned"
               /\ adDraws' = adDraws
          ELSE /\ adOut' = None
               /\ adPos' = "returned"
               /\ adDraws' = adDraws
  /\ UNCHANGED <<ad, adArtist, adStatus, adIds, adCause, adapterFrame>>

\* one turn of the loop, from the record's arrival: the record is returned, or
\* the next one is fetched, or the loop is over
MetRecordParsed ==
  /\ ad = "met"
  /\ adPos = "drawjson"
  /\ \E obj \in MetRecords :
       /\ adPick' = obj
       /\ IF obj \in MetValid
          THEN /\ adOut' = MetArtwork(obj, adArtist.chars)
               /\ adPos' = "returned"
               /\ adDraws' = adDraws
          ELSE IF adDraws < MaxDraws
          THEN /\ adOut' = None
               /\ adPos' = "drawfetch"
               /\ adDraws' = adDraws + 1
          ELSE /\ adOut' = None
               /\ adPos' = "returned"
               /\ adDraws' = adDraws
  /\ UNCHANGED <<ad, adArtist, adStatus, adIds, adCause, adapterFrame>>

\* const { data } = await res.json(); filter; pick; normalise (the same shape
\* in fetchFromAIC, fetchFromVAM and fetchFromCleveland)
ListParsed ==
  /\ ad \in {"aic", "vam", "cleveland"}
  /\ adPos = "json"
  /\ adPos' = "returned"
  /\ \E body \in {None} \cup { Arr(l) : l \in Lists(ad) } :
       LET data  == IF body = None THEN <<>> ELSE body.list
           valid == Filter(ad, data)
       IN  IF valid = <<>>
           THEN adOut' = None /\ adPick' = adPick
           ELSE \E k \in DOMAIN valid :
                  /\ adPick' = valid[k]
                  /\ adOut' = Normalize(ad, valid[k],
                                        IF adArtist = None THEN <<>>
                                        ELSE adArtist.chars)
  /\ UNCHANGED <<ad, adArtist, adStatus, adIds, adDraws, adCause, adapterFrame>>

AdapterInit == Closed /\ rng = Shuffles /\ NoCall

AdapterNext ==
  \/ fetchFromMet
  \/ fetchFromAIC
  \/ fetchFromVAM
  \/ fetchFromCleveland
  \/ FetchRejects
  \/ FetchResolves
  \/ JsonRejects
  \/ MetSearchParsed
  \/ MetRecordParsed
  \/ ListParsed

AdapterSpec == AdapterInit /\ [][AdapterNext]_vars

\* normalizeTicker applied to one string typed in, then to its own result.
TickerInit ==
  /\ Closed
  /\ rng = Shuffles
  /\ EraIdle
  /\ ArtistIdle
  /\ AdapterIdle
  /\ ntRaw \in { Str(raw) : raw \in TickerInputs }
  /\ ntCalls = 0
  /\ ntOnce = None
  /\ ntTwice = None

TickerCall ==
  /\ ntCalls = 0
  /\ ntCalls' = 1
  /\ ntOnce' = Str(normalizeTicker(ntRaw.chars))
  /\ UNCHANGED <<controllerVars, widgetVars, eraVars, artistVars, adapterVars,
                 ntRaw, ntTwice>>

TickerCallAgain ==
  /\ ntCalls = 1
  /\ ntCalls' = 2
  /\ ntTwice' = Str(normalizeTicker(ntOnce.chars))
  /\ UNCHANGED <<controllerVars, widgetVars, eraVars, artistVars, adapterVars,
                 ntRaw, ntOnce>>

TickerNext == TickerCall \/ TickerCallAgain

TickerSpec == TickerInit /\ [][TickerNext]_vars

\* The page as a whole, one tab: the controller and the widget side by side.
\* The controller's runs are the ones of the two-tab specification (random
\* source pinned, no failing request).
WidgetStep(t) ==
  \/ InitTickersLoaded(t)
  \/ InitNoteLoaded(t)
  \/ \E raw \in RawTickers : addTicker(t, raw)
  \/ AddListLoaded(t)
  \/ TickersSaved(t)
  \/ QuoteArrives(t)
  \/ \E ticker \in Tickers : removeTicker(t, ticker)
  \/ RemoveListLoaded(t)
  \/ NoteOpen(t)
  \/ NoteInput(t)
  \/ _saveNote(t)
  \/ NoteErase(t)
  \/ NoteClose(t)
  \/ NoteSaved(t)
  \/ NoteRemoved(t)

PageNext == \E t \in SoloTabs : TabsStep(t) \/ WidgetStep(t)

PageSpec == TabsInit /\ [][PageNext]_vars

\* The ticker list of one page: the user adds and removes two tickers while
\* the store answers; the artwork controller is not scheduled.
ListRaws == RawTickers \cup { <<"a", "a", "p", "l">> }

ListTickers == { normalizeTicker(raw) : raw \in ListRaws }

ListStep(t) ==
  \/ Open(t)
  \/ InitTickersLoaded(t)
  \/ InitNoteLoaded(t)
  \/ \E raw \in ListRaws : addTicker(t, raw)
  \/ AddListLoaded(t)
  \/ TickersSaved(t)
  \/ QuoteArrives(t)
  \/ \E ticker \in ListTickers : removeTicker(t, ticker)
  \/ RemoveListLoaded(t)
  \/ Close(t)

ListNext == \E t \in SoloTabs : ListStep(t)

ListSpec == TabsInit /\ [][ListNext]_vars

\* ================================================================== claims
\* The first renderArtwork call of a session: nothing rendered before it.
FirstRender(t) == rendered[t] = None /\ rendered'[t] # None

\* C1: in a warm start (the slot held an artwork with a dataUrl when the
\* session read it) the first renderArtwork call gets exactly the cached
\* artwork, and it is made before any adapter call of that session has been
\* started; no adapter call of a warm session precedes its render.
C1_WarmRenderBeforeNetwork ==
  [][\A t \in Tabs :
       /\ (branch[t] = "warm" /\ FirstRender(t))
            => (rendered'[t] = ready[t] /\ ~netStarted[t] /\ ~netStarted'[t])
       /\ (branch'[t] = "warm" /\ netStarted'[t]) => rendered'[t] # None
    ]_vars

C1_Witness ==
  \E t \in Tabs :
    /\ branch[t] = "warm"
    /\ HasDataUrl(ready[t])
    /\ rendered[t] = ready[t]
    /\ img[t] = "painted"
    /\ ~netStarted[t]

\* C2: in a warm start the remove of 'ready' has been issued when
\* renderArtwork is called, and once the remove has taken effect the slot is
\* empty until the session's refill has written.
C2_EvictBeforeRender ==
  [][\A t \in Tabs :
       /\ (branch[t] = "warm" /\ FirstRender(t)) => evict[t] # "none"
       /\ (evict'[t] = "effective" /\ rpc'[t] # "cached") => slot' = None
    ]_vars

C2_Witness ==
  \E t \in Tabs :
    /\ branch[t] = "warm"
    /\ rendered[t] = ready[t]
    /\ evict[t] = "effective"
    /\ slot = None

\* The entry prefetchAndCache has built from its artwork and the data URL.
RefillEntry(t) == WithDataUrl(rart[t], ReaderResult(rbody[t]))

\* C3: after a warm start the refill, when it gets as far as writing, has
\* written a slot entry different from the entry the session displayed.
C3_RefillWritesDifferentEntry ==
  \A t \in Tabs :
    (branch[t] = "warm" /\ rpc[t] = "cached") => RefillEntry(t) # ready[t]

\* C4: in a cold start on an empty slot whose orchestrator run returned null
\* the handler calls renderArtwork with the FALLBACK record (title "Water
\* Lilies", artist "Claude Monet", source "Art Institute of Chicago"); it
\* does not render null and it does not call showError itself: showError
\* is only ever called by the onerror of the fallback's image.
C4_ColdNullRendersFallback ==
  [][\A t \in Tabs :
       /\ ( /\ branch[t] = "cold" /\ ready[t] = None /\ artwork[t] = None
            /\ pc[t] = "miss_render" /\ pc'[t] \notin {"miss_render", "closed"} )
            => /\ rendered'[t] = FALLBACK
               /\ rendered'[t].title = "Water Lilies"
               /\ rendered'[t].artist = "Claude Monet"
               /\ rendered'[t].source = "Art Institute of Chicago"
               /\ img'[t] = "loading"
               /\ errorShown'[t] = errorShown[t]
       /\ (~errorShown[t] /\ errorShown'[t])
            => (img[t] = "loading" /\ rendered[t] = FALLBACK /\ pc'[t] = pc[t])
    ]_vars

C4_Witness ==
  \E t \in Tabs :
    /\ branch[t] = "cold"
    /\ ready[t] = None
    /\ artwork[t] = None
    /\ pc[t] = "miss_prefetch"
    /\ rendered[t] = FALLBACK
    /\ ~errorShown[t]

\* the adapters of the run that did k
Did(t, k) == { s \in Range(FETCHERS) : outcome[t][s].kind = k }

\* C5: an adapter that raises does not end the run: its failure is logged
\* with console.warn and never thrown out of fetchRandomArtwork; a run in
\* which some adapter A raised and an adapter B produced an artwork returns
\* exactly B's artwork, and a run in which an adapter raised and none
\* produced an artwork has gone through the whole registry before it returns.
C5_FailureIsolation ==
  \A t \in Tabs :
    /\ opc[t] # "thrown"
    /\ Did(t, "raise") = warned[t]
    /\ (opc[t] = "returned" /\ Did(t, "raise") # {})
         => IF Did(t, "artwork") # {}
            THEN \A b \in Did(t, "artwork") : result[t] = outcome[t][b].value
            ELSE Range(calls[t]) = Range(FETCHERS)

C5_Witness ==
  \E t \in Tabs : \E a, b \in Range(FETCHERS) :
    /\ opc[t] = "returned"
    /\ outcome[t][a].kind = "raise"
    /\ a \in warned[t]
    /\ outcome[t][b].kind = "artwork"
    /\ result[t] = outcome[t][b].value
    /\ result[t].source = Museum[b]

\* C6: a run in which every adapter of the registry returned "no result" or
\* raised returns null and does not throw.
C6_TotalExhaustion ==
  \A t \in Tabs :
    /\ opc[t] # "thrown"
    /\ (Did(t, "null") \cup Did(t, "raise") = Range(FETCHERS))
         => (opc[t] = "returned" /\ result[t] = None)

C6_Witness ==
  \E t \in Tabs :
    /\ opc[t] = "returned"
    /\ Did(t, "null") # {}
    /\ Did(t, "raise") # {}
    /\ Did(t, "null") \cup Did(t, "raise") = Range(FETCHERS)
    /\ result[t] = None

\* C7: adapters of one run are called one at a time in the shuffled order:
\* at most one is pending, the pending one is the last called, the calls are
\* a prefix of the shuffled list, every earlier call has completed without
\* an artwork, nothing is called once the run has returned, and a returned
\* artwork is the one the last called adapter produced.
C7_StrictlySequential ==
  [][\A t \in Tabs :
       /\ Cardinality(running'[t]) <= 1
       /\ opc'[t] = "inflight"
            => /\ running'[t] = {Last(calls'[t])}
               /\ calls'[t] = SubSeq(sources'[t], 1, Len(calls'[t]))
               /\ \A i \in 1..(Len(calls'[t]) - 1) :
                    outcome'[t][calls'[t][i]].kind \in {"null", "raise"}
               /\ outcome'[t][Last(calls'[t])].kind = "unused"
       /\ opc'[t] = "returned"
            => /\ running'[t] = {}
               /\ result'[t] # None
                    => /\ outcome'[t][Last(calls'[t])] = Outcome("artwork", result'[t])
                       /\ Did(t, "artwork")' = {Last(calls'[t])}
       /\ opc[t] = "returned" => calls'[t] \in {calls[t], <<>>}
    ]_vars

C7_Witness ==
  \E t \in Tabs :
    /\ opc[t] = "returned"
    /\ Len(calls[t]) = 3
    /\ result[t] # None
    /\ Did(t, "raise") # {}
    /\ Did(t, "null") # {}

\* the storage requests of tab t that write the slot
PendingSets(t) == { i \in DOMAIN sq[t] : sq[t][i].op = "set" }

\* C8: when the refill's orchestrator run returns null the refill stops
\* there: no image download, no encoding, no storage write; and no entry
\* built from the FALLBACK record is ever written or queued for writing.
C8_RefillSkipsOnNull ==
  [][\A t \in Tabs :
       /\ (rpc[t] = "fetch" /\ opc[t] = "returned" /\ result[t] = None
           /\ rpc'[t] \notin {"fetch", "idle"})
            => (rpc'[t] = "skipped" /\ sq'[t] = sq[t] /\ rart'[t] = None)
       /\ rpc[t] = "skipped" => rpc'[t] \in {"skipped", "idle"}
       /\ rpc'[t] = "skipped" => PendingSets(t)' = {}
       /\ slot' # None => WithoutDataUrl(slot') # FALLBACK
       /\ \A i \in PendingSets(t)' : WithoutDataUrl(sq'[t][i].value) # FALLBACK
    ]_vars

C8_Witness ==
  \E t \in Tabs :
    /\ rpc[t] = "skipped"
    /\ rendered[t] = FALLBACK
    /\ sq[t] = <<>>
    /\ slot = None

\* C9: a failing refill step (image download, body read, encoding, storage
\* set) ends in the catch block of prefetchAndCache, whose promise never
\* rejects; the step leaves the handler and what the session displays as
\* they are, and afterwards the only render is the onerror retry of the
\* image the session had already been given.
C9_RefillFailureContained ==
  [][\A t \in Tabs :
       /\ rpc'[t] # "rejected"
       /\ (rpc[t] # "failed" /\ rpc'[t] = "failed")
            => /\ rerr'[t] # "none"
               /\ rendered'[t] = rendered[t]
               /\ img'[t] = img[t]
               /\ errorShown'[t] = errorShown[t]
               /\ pc'[t] = pc[t]
       /\ (rpc[t] = "failed" /\ pc'[t] # "closed")
            => /\ rpc'[t] = "failed"
               /\ (rendered'[t] # rendered[t] \/ errorShown'[t] # errorShown[t])
                    => img[t] = "loading"
    ]_vars

C9_Witness ==
  \E t \in Tabs :
    /\ rpc[t] = "failed"
    /\ rerr[t] = "set rejected"
    /\ rendered[t] # None
    /\ rendered[t] # FALLBACK
    /\ img[t] = "painted"
    /\ ~errorShown[t]

\* C10: once a session's refill has failed and the store has processed
\* everything the session sent, the cache slot is empty (so the next session
\* is a cold start).
C10_FailedRefillLeavesSlotEmpty ==
  \A t \in Tabs :
    (rpc[t] = "failed" /\ sq[t] = <<>>) => slot = None

\* A warm session that has rendered (its first render is the cached entry).
ShownCached(t) == branch[t] = "warm" /\ rendered[t] # None

\* C11: when two tabs start their sessions near-simultaneously over one
\* populated slot (each was opened before the other had consumed it), at
\* most one of them renders the cached entry: the two never have both
\* rendered the entry of one and the same write.
C11_AtMostOneTabRendersEntry ==
  \A t, u \in Tabs :
    (t # u /\ fresh[t] /\ fresh[u] /\ ~late[t] /\ ~late[u])
      => ~(ShownCached(t) /\ ShownCached(u))

\* C12: once a warm session has consumed the slot (read it and sent the
\* remove), a tab opened after that and before the session's refill has
\* written does not render the same cached entry.
C12_NoRepeatAfterConsumption ==
  \A t \in Tabs : (late[t] /\ fresh[t]) => ~ShownCached(t)

\* C13: whatever museum-API, image-download and storage requests fail, no
\* rejected promise leaves the session-start handler: the handler's own
\* promise is never rejected.
C13_NothingEscapesHandler ==
  \A t \in Tabs : pc[t] # "rejected"

\* The <img> of tab t fires onerror in this step: the load under way ends in
\* the error state or is replaced by a new load.
ImageFails(t) ==
  /\ img[t] = "loading"
  /\ img'[t] = "error" \/ loads'[t] = loads[t] + 1

\* C14: when an image fails to load, showError is invoked iff the artwork
\* being rendered is FALLBACK; any other artwork is re-rendered once with
\* FALLBACK.  A session therefore starts at most two image loads, showError
\* comes only from a failed image, and a chain that has ended (image painted
\* or error state shown) stays as it is until the tab is closed.
C14_RenderFailurePolicy ==
  [][\A t \in Tabs :
       /\ ImageFails(t) => (errorShown'[t] <=> rendered[t] = FALLBACK)
       /\ (ImageFails(t) /\ rendered[t] # FALLBACK)
            => /\ rendered'[t] = FALLBACK
               /\ img'[t] = "loading"
               /\ loads'[t] = loads[t] + 1
       /\ (errorShown'[t] /\ ~errorShown[t]) => ImageFails(t)
       /\ loads'[t] <= 2
       /\ img'[t] = "error" => errorShown'[t]
       /\ (img[t] \in {"painted", "error"} /\ pc'[t] # "closed")
            => (img'[t] = img[t] /\ rendered'[t] = rendered[t])
    ]_vars

C14_Witness ==
  \E t \in Tabs :
    /\ branch[t] = "warm"
    /\ loads[t] = 2
    /\ rendered[t] = FALLBACK
    /\ img[t] = "error"
    /\ errorShown[t]

\* An orchestrator run of the session has returned null: the foreground run
\* of a cold start, or the run of the refill.
Exhausted(t) ==
  \/ branch[t] = "cold" /\ pc[t] \notin {"miss_fetch", "miss_await"} /\ artwork[t] = None
  \/ rpc[t] = "skipped"

C16_LastWriteWins ==
  [][/\ slot' = None \/ HasDataUrl(slot')
     /\ \A t \in Tabs :
          (rpc[t] = "set" /\ rpc'[t] = "cached")
            => (HeadOp(t) = "set" /\ slot' = Head(sq[t]).value /\ slot' = RefillEntry(t))
     /\ (slot' # slot /\ slot' # None)
          => \E t \in Tabs :
               HeadOp(t) = "set" /\ sq'[t] = Tail(sq[t]) /\ slot' = Head(sq[t]).value
    ]_vars

\* a refill has written over the entry its session had read: the remove
\* failed, so the old entry was still present when the write was processed
C16_Witness ==
  \E t \in SoloTabs :
    /\ branch[t] = "warm"
    /\ evict[t] = "failed"
    /\ rpc[t] = "cached"
    /\ RefillEntry(t) # ready[t]
    /\ slot = RefillEntry(t)

\* C18: within one session the refill starts only after the session's read
\* of the slot has been answered and, on a warm start, after its remove has
\* been sent; the page's requests are processed in the order sent, so no get
\* or remove of the session is behind its set, and when the write is
\* processed the session's remove is no longer pending.
C18_RefillAfterReadAndDelete ==
  [][\A t \in Tabs :
       /\ rpc'[t] # "idle"
            => /\ branch'[t] # "none"
               /\ branch'[t] = "warm" => evict'[t] # "none"
       /\ \A i, j \in DOMAIN sq'[t] :
            (i < j /\ sq'[t][i].op = "set") => sq'[t][j].op \notin {"get", "remove"}
       /\ (rpc[t] = "set" /\ rpc'[t] \in {"cached", "failed"})
            => (HeadOp(t) = "set" /\ evict[t] # "issued")
    ]_vars

C18_Witness ==
  \E t \in Tabs :
    /\ branch[t] = "warm"
    /\ evict[t] = "effective"
    /\ rpc[t] = "cached"
    /\ sq[t] = <<>>
    /\ slot = RefillEntry(t)

\* a string of exactly four digits
IsYear(raw) ==
  raw # None /\ Len(raw.chars) = 4 /\ \A i \in 1..4 : raw.chars[i] \in Digits

\* C19: for every 4-digit year y, inImpressionistEra(str(y)) is true iff
\* 1860 <= y <= 1910, both ends included.
C19_EraRange ==
  (eraCalled /\ IsYear(eraRaw))
    => (eraResult <=> (1860 <= ToNumber(eraRaw.chars) /\ ToNumber(eraRaw.chars) <= 1910))

C19_Witness ==
  /\ eraCalled
  /\ eraRaw = Str(<<"1", "9", "1", "0">>)
  /\ eraResult

\* the positions of s at which a run of four digits starts
RunStarts(s) ==
  { i \in 1..Len(s) : i + 3 <= Len(s) /\ \A k \in 0..3 : s[i + k] \in Digits }

\* the leftmost run of four digits of s
FirstRun(s) ==
  LET i == CHOOSE j \in RunStarts(s) : \A k \in RunStarts(s) : j <= k
  IN  SubSeq(s, i, i + 3)

\* C20: for null, the empty string and every string without a run of four
\* digits the result is true; for a string with one or more such runs the
\* result is the verdict on the first run alone, whatever follows it.
C20_PermissiveAndFirstRun ==
  eraCalled =>
    IF eraRaw = None \/ RunStarts(eraRaw.chars) = {}
    THEN eraResult
    ELSE eraResult <=> (1860 <= ToNumber(FirstRun(eraRaw.chars))
                          /\ ToNumber(FirstRun(eraRaw.chars)) <= 1910)

\* "19001": the first run, 1900, is in the era, the later run 9001 is not
C20_Witness ==
  /\ eraCalled
  /\ eraRaw = Str(<<"1", "9", "0", "0", "1">>)
  /\ eraResult

\* the widget of tab t: its page state and its pending requests
WidgetOf(t) ==
  <<wq[t], wpc[t], cards[t], editor[t], pad[t], timer[t], apc[t], aticker[t],
    dpc[t], dticker[t]>>

\* C17: key 'ready' belongs to the controller and keys 'stockWidgets' and
\* 'noteContent' to the widget.  The slot changes only when the store
\* processes a remove or set of the controller; the widget's keys change
\* only when it processes a write of the widget; a step of the widget
\* (addTicker, removeTicker, saveTickerList, note save, erase, close and the
\* answers to their requests) leaves the slot, the controller's queue and
\* the value the handler read as they are; a step on the controller's queue
\* leaves the widget's keys as they are; and `ready` only ever takes the
\* value of the slot.
C17_SlotOwnership ==
  [][/\ slot' # slot
          => \E t \in Tabs :
               /\ HeadOp(t) \in {"remove", "set"}
               /\ sq'[t] = Tail(sq[t])
               /\ wq' = wq
     /\ (stockWidgets' # stockWidgets \/ noteContent' # noteContent)
          => \E t \in Tabs :
               /\ WHeadOp(t) \in {"setTickers", "setNote", "removeNote"}
               /\ wq'[t] = Tail(wq[t])
               /\ sq' = sq
     /\ \A t \in Tabs :
          /\ (pc'[t] = pc[t] /\ WidgetOf(t)' # WidgetOf(t))
               => (slot' = slot /\ sq' = sq /\ ready' = ready)
          /\ sq'[t] # sq[t]
               => (stockWidgets' = stockWidgets /\ noteContent' = noteContent)
          /\ ready'[t] # ready[t] => ready'[t] \in {slot, None}
    ]_vars

\* the widget has written and removed its keys while the slot held an entry
C17_Witness ==
  /\ HasDataUrl(slot)
  /\ stockWidgets = Arr(<<normalizeTicker(<<"7", "0", "0", ".", "h", "k">>)>>)
  /\ noteContent = None
  /\ \E t \in Tabs : editor[t] = EditorBlank /\ pad[t] = "hidden" /\ wpc[t] = "ready"
                       /\ wq[t] = <<>> /\ cards[t] # {} /\ branch[t] = "warm"

\* A character of s that stripHtml's tag removal deletes: it lies between a
\* "<" and the first ">" at or after it, both included.
InTag(s, i) ==
  /\ \E b \in i..Len(s) : s[b] = ">"
  /\ \E a \in 1..i : s[a] = "<" /\ \A k \in a..(i - 1) : s[k] # ">"

\* s without the characters that lie in a tag
Untagged(s) ==
  LET at   == [i \in DOMAIN s |-> <<i, s[i]>>]
      kept == SelectSeq(at, LAMBDA p : ~InTag(s, p[1]))
  IN  [i \in DOMAIN kept |-> kept[i][2]]

NamedIn(text) ==
  \E k \in DOMAIN IMPRESSIONISTS :
    Includes(ToLowerCase(Untagged(text)), ToLowerCase(IMPRESSIONISTS[k]))

\* C21: matchesArtist(text) is true exactly when the text, with its HTML tags
\* removed and lower-cased, contains a name of the master list (lower-cased)
\* as a substring; it is true for "<b>Monet</b>", false for "Pablo Picasso",
\* false for an empty and for an absent text.
C21_MatchesArtist ==
  maCalled =>
    /\ maResult <=> (maRaw # None /\ NamedIn(maRaw.chars))
    /\ maRaw = Str(<<"<", "b", ">", "M", "o", "n", "e", "t", "<", "/", "b", ">">>)
         => maResult
    /\ maRaw = Str(<<"P", "a", "b", "l", "o", " ", "P", "i", "c", "a", "s", "s", "o">>)
         => ~maResult
    /\ maRaw \in {None, Str(<<>>)} => ~maResult

\* a name in capitals, wrapped in markup, is accepted
C21_Witness ==
  /\ maCalled
  /\ maRaw = Str(<<"<", "b", ">", "M", "O", "N", "E", "T", " ", "<", "/", "b", ">">>)
  /\ maResult

\* ------------------------------------------------------------ the adapters
Returned == adPos = "returned" /\ adOut # None

\* the image reference, the attribution and the date of a candidate record,
\* as the adapter reads them (None when the record has none)
ImageRefs(src, r) ==
  CASE src = "met"       -> {r.primaryImageSmall, r.primaryImage}
    [] src = "aic"       -> {r.image_id}
    [] src = "vam"       -> {r.thumbnail}
    [] src = "cleveland" -> {r.print, r.web}

HasImage(src, r) == \E x \in ImageRefs(src, r) : Truthy(x)

AttributionOf(src, r) ==
  CASE src = "met"       -> r.artistDisplayName
    [] src = "aic"       -> r.artist_display
    [] src = "vam"       -> r.maker
    [] src = "cleveland" ->
         IF r.creators = None \/ \A i \in DOMAIN r.creators.list :
                                   r.creators.list[i] = None
         THEN None
         ELSE Str(Join(r.creators.list))

DateOf(src, r) ==
  CASE src = "met"       -> r.objectDate
    [] src = "aic"       -> r.date_display
    [] src = "vam"       -> r.date
    [] src = "cleveland" -> r.creation_date

MetChecks(obj) ==
  /\ HasImage("met", obj)
  /\ matchesArtist(obj.artistDisplayName)
  /\ inImpressionistEra(obj.objectDate)

\* C22: fetchFromMet fetches at most 6 records; the first drawn record that
\* has an image and passes the artist and era checks is returned, also when it
\* is the 6th; after 6 failing draws the adapter returns "no result" and
\* fetches nothing more; with an empty or absent ID list it returns "no
\* result" without having fetched any record.
C22_MetBoundedRetry ==
  ad = "met" =>
    /\ adDraws <= 6
    /\ (adPick # None /\ MetChecks(adPick)) => Returned
    /\ Returned => (adDraws \in 1..6 /\ MetChecks(adPick))
    /\ (adPos = "returned" /\ adOut = None /\ adDraws > 0) => adDraws = 6
    /\ (adPos \in {"drawfetch", "drawjson", "returned", "raised"}
          /\ adIds \in {None, Arr(<<>>)})
         => (adDraws = 0 /\ adOut = None /\ adPick = None)
    /\ (adPos \in {"drawfetch", "drawjson"}) => adDraws >= 1

\* the 6th draw succeeds and is returned
C22_Witness ==
  /\ ad = "met"
  /\ Returned
  /\ adDraws = 6
  /\ MetChecks(adPick)

\* C23: every Artwork an adapter returns has a non-empty imageUrl, and the
\* record it was made from carries an image reference.
C23_ImageAlwaysPresent ==
  Returned => (adOut.imageUrl # <<>> /\ HasImage(ad, adPick))

\* the V&A adapter returns a record whose thumbnail has no size segment
C23_Witness ==
  /\ ad = "vam"
  /\ Returned
  /\ adPick.thumbnail = Str(<<"t", ".", "j", "p", "g">>)
  /\ adOut.imageUrl = <<"t", ".", "j", "p", "g">>

NoRaiseWithoutCause ==
  /\ adPos = "raised" <=> adCause # "none"
  /\ adCause \in {"none", "transport", "json"}
  /\ (ad = "met" /\ adIds = None) => adPos \notin {"drawfetch", "drawjson"}

\* C24 as stated: an adapter raises only when the transport fails or the body
\* is not JSON, and a candidate lacking its image reference, its artist, its
\* date or (AIC) its style tag is filtered out, never returned.
C24_AbsentFieldsFilteredOut ==
  /\ NoRaiseWithoutCause
  /\ Returned =>
       /\ HasImage(ad, adPick)
       /\ AttributionOf(ad, adPick) # None
       /\ DateOf(ad, adPick) # None
       /\ ad = "aic" => adPick.style_title # None

\* C24, amended: an adapter raises only when the transport fails or the body
\* is not JSON; a candidate lacking its image reference, its artist or (AIC)
\* its style tag is never returned; a candidate lacking its date is kept, and
\* is returned with an empty year.
C24_AbsentFieldsNeverRaise ==
  /\ NoRaiseWithoutCause
  /\ Returned =>
       /\ HasImage(ad, adPick)
       /\ AttributionOf(ad, adPick) # None
       /\ ad = "aic" => adPick.style_title # None
       /\ DateOf(ad, adPick) = None => adOut.year = <<>>

\* a record without a date is returned
C24_Witness ==
  /\ Returned
  /\ DateOf(ad, adPick) = None
  /\ adOut.year = <<>>

StyleOk(r) ==
  /\ r.style_title # None
  /\ Includes(ToLowerCase(r.style_title.chars), <<"i", "m", "p", "r", "e", "s", "s", "i", "o", "n", "i">>)

PickedIsReturned ==
  adOut = Normalize(ad, adPick, IF adArtist = None THEN <<>> ELSE adArtist.chars)

\* C25 as stated: what the AIC, V&A and Cleveland adapters return is made
\* from a record that passes matchesArtist on its attribution and
\* inImpressionistEra on its date (and, for AIC, whose style tag contains
\* "impressioni"); the record picked is the one returned.
C25_FiltersBeforeSelection ==
  (ad \in {"aic", "vam", "cleveland"} /\ Returned) =>
    /\ matchesArtist(AttributionOf(ad, adPick))
    /\ inImpressionistEra(DateOf(ad, adPick))
    /\ ad = "aic" => StyleOk(adPick)
    /\ PickedIsReturned

\* C25, amended: the same, except that the Cleveland adapter tests no date
\* (the era is only asked for in the request, created_after / created_before).
C25_FiltersBeforeSelectionButClevelandEra ==
  (ad \in {"aic", "vam", "cleveland"} /\ Returned) =>
    /\ matchesArtist(AttributionOf(ad, adPick))
    /\ ad \in {"aic", "vam"} => inImpressionistEra(DateOf(ad, adPick))
    /\ ad = "aic" => StyleOk(adPick)
    /\ PickedIsReturned

\* the Cleveland adapter returns a work dated 1850
C25_Witness ==
  /\ ad = "cleveland"
  /\ Returned
  /\ adPick.creation_date = Str(<<"1", "8", "5", "0">>)
  /\ adOut.year = <<"1", "8", "5", "0">>

\* the part of s before its first "(" (all of s when it has none)
UpToParen(s) ==
  SubSeq(s, 1, CHOOSE n \in 0..Len(s) :
                 /\ \A i \in 1..n : s[i] # "("
                 /\ n = Len(s) \/ s[n + 1] = "(")

FirstCreator(r) ==
  IF r.creators = None \/ r.creators.list = <<>> THEN None
  ELSE r.creators.list[1]

\* C26: the artist of a Cleveland Artwork is the first creator's attribution
\* cut at its first "(" and trimmed; when that attribution is absent, or when
\* what is left of it is empty, it is the artist the query was made for.
C26_ClevelandNameCleaning ==
  (ad = "cleveland" /\ Returned) =>
    adOut.artist =
      IF ~Truthy(FirstCreator(adPick)) THEN adArtist.chars
      ELSE IF Trim(UpToParen(FirstCreator(adPick).chars)) = <<>>
           THEN adArtist.chars
           ELSE Trim(UpToParen(FirstCreator(adPick).chars))

\* "Claude Monet (French, 1840-1926)" becomes "Claude Monet"
C26_Witness ==
  /\ ad = "cleveland"
  /\ Returned
  /\ FirstCreator(adPick) = Str(<<"C", "l", "a", "u", "d", "e", " ", "M", "o", "n", "e", "t", " ", "(", "F", "r", "e", "n", "c", "h", ",", " ", "1", "8", "4", "0", "-", "1", "9", "2", "6", ")">>)
  /\ adOut.artist = <<"C", "l", "a", "u", "d", "e", " ", "M", "o", "n", "e", "t">>

\* C27: every Artwork returned has a non-empty title ("Untitled" when the
\* record has none), a non-empty artist (the record's attribution, else the
\* query artist or "Unknown") and the fixed name of its museum as source.
C27_DisplayFieldsPresent ==
  Returned =>
    /\ adOut.title # <<>>
    /\ ~Truthy(adPick.title) => adOut.title = Untitled
    /\ Truthy(adPick.title) => adOut.title = adPick.title.chars
    /\ adOut.artist # <<>>
    /\ \/ ad \in {"met", "aic", "vam"}
            /\ adOut.artist = AttributionOf(ad, adPick).chars
       \/ ad = "cleveland" /\ Truthy(FirstCreator(adPick))
            /\ Includes(FirstCreator(adPick).chars, adOut.artist)
       \/ adArtist # None /\ adOut.artist = adArtist.chars
       \/ adOut.artist = Unknown
    /\ adOut.source = (CASE ad = "met"       -> MetSource
                         [] ad = "aic"       -> AicSource
                         [] ad = "vam"       -> VamSource
                         [] ad = "cleveland" -> ClevelandSource)

\* a record without a title is shown as "Untitled"
C27_Witness ==
  /\ Returned
  /\ adPick.title = None
  /\ adOut.title = Untitled

\* C28: a response with a 4xx or 5xx status yields no artwork (a body that is
\* not JSON makes the adapter raise, which yields none either).
C28_ErrorStatusYieldsNothing ==
  /\ adCause = "json" => (adPos = "raised" /\ adOut = None)
  /\ (adPos = "returned" /\ adStatus >= 400) => adOut = None

\* ------------------------------------------------------- a call that hangs
\* c ("handler" or "refill") awaits a run of the orchestrator, which awaits
\* an adapter
AwaitsAdapter(t, c) == opc[t] = "inflight" /\ caller[t] = c

\* the promise of the awaited adapter settles in this step
Settles(t) == outcome'[t][Current(t)] # outcome[t][Current(t)]

NoSetPending(q) == \A i \in DOMAIN q : q[i].op # "set"

\* C29: nothing but the adapter's own completion (or the tab's closing) ends
\* the wait for an adapter.  While the handler of a cold start waits, nothing
\* has been rendered, no error is shown and no refill has started, and it
\* stays so as long as the call does not complete.  While a refill waits, the
\* page has rendered (on a warm start, the cached artwork), no write of the
\* slot is pending, and none is sent or made as long as the call does not
\* complete.
C29_HungCallStalls ==
  [][\A t \in Tabs :
       /\ AwaitsAdapter(t, "handler") =>
            /\ pc[t] = "miss_await" /\ branch[t] = "cold"
            /\ rendered[t] = None /\ ~errorShown[t] /\ rpc[t] = "idle"
            /\ (~Settles(t) /\ pc'[t] # "closed") =>
                 /\ AwaitsAdapter(t, "handler")'
                 /\ rendered'[t] = None /\ ~errorShown'[t] /\ rpc'[t] = "idle"
       /\ AwaitsAdapter(t, "refill") =>
            /\ rpc[t] = "fetch"
            /\ rendered[t] # None
            /\ NoSetPending(sq[t])
            /\ (~Settles(t) /\ pc'[t] # "closed") =>
                 /\ AwaitsAdapter(t, "refill")'
                 /\ rpc'[t] = "fetch"
                 /\ NoSetPending(sq'[t])
                 /\ slot' # slot => slot' = None
    ]_vars

\* a warm start whose refill waits for an adapter: the cached artwork is
\* painted, the slot is empty and nothing else is left to do
C29_Witness ==
  \E t \in Tabs :
    /\ AwaitsAdapter(t, "refill")
    /\ branch[t] = "warm"
    /\ rendered[t] = ready[t]
    /\ img[t] = "painted"
    /\ sq[t] = <<>>
    /\ slot = None

\* ---------------------------------------------------------- normalizeTicker
\* the digits of s, in order
DigitsOf(s) == SelectSeq(s, LAMBDA c : c \in Digits)

\* d and e are the same number written with more or fewer leading zeros
SameNumber(d, e) ==
  \E a \in 0..Len(d), b \in 0..Len(e) :
    /\ \A i \in 1..a : d[i] = "0"
    /\ \A i \in 1..b : e[i] = "0"
    /\ SubSeq(d, a + 1, Len(d)) = SubSeq(e, b + 1, Len(e))

\* r is the number written in `digits`, without leading zeros but for the
\* ones that bring it to four digits, followed by ".HK"
HkCanonical(digits, r) ==
  /\ Len(r) >= 7
  /\ SubSeq(r, Len(r) - 2, Len(r)) = <<".", "H", "K">>
  /\ LET d == SubSeq(r, 1, Len(r) - 3) IN
       /\ AllDigits(d)
       /\ Len(d) > 4 => d[1] # "0"
       /\ SameNumber(d, digits)

\* C30: for a string isHKTicker accepts, normalizeTicker gives its digits
\* without leading zeros, left-padded to four digits at least, then ".HK";
\* for any other string it gives the string trimmed and upper-cased; and
\* normalising the result again changes nothing.
C30_NormalizeTicker ==
  /\ ntCalls >= 1 =>
       IF isHKTicker(ntRaw.chars)
       THEN HkCanonical(DigitsOf(ntRaw.chars), ntOnce.chars)
       ELSE ntOnce.chars = ToUpperCase(Trim(ntRaw.chars))
  /\ ntCalls = 2 => ntTwice = ntOnce

\* " 700.hk " becomes "0700.HK", and stays so
C30_Witness ==
  /\ ntCalls = 2
  /\ ntRaw = Str(<<" ", "7", "0", "0", ".", "h", "k", " ">>)
  /\ ntOnce = Str(<<"0", "7", "0", "0", ".", "H", "K">>)
  /\ ntTwice = ntOnce

\* C31: on a cache miss the handler resumes only when its orchestrator run
\* has returned and takes that run's result; renderArtwork is called after
\* that, with the result or with FALLBACK when the result is null, and with
\* no refill launched yet; the refill is launched after the render, as a new
\* orchestrator run of its own (fresh shuffle, first adapter called), and
\* the handler ends with the statement that launches it: it does not wait
\* for the refill.
C31_ColdStartOrdering ==
  [][\A t \in Tabs :
       /\ (pc[t] = "miss_await" /\ pc'[t] \notin {"miss_await", "closed"})
            => /\ opc[t] = "returned"
               /\ caller[t] = "handler"
               /\ artwork'[t] = result[t]
               /\ rendered'[t] = None
               /\ rpc'[t] = "idle"
       /\ (branch[t] = "cold" /\ FirstRender(t))
            => /\ netStarted[t]
               /\ opc[t] = "idle"
               /\ caller[t] = "none"
               /\ rendered'[t] = (IF artwork[t] = None THEN FALLBACK ELSE artwork[t])
               /\ rpc[t] = "idle"
               /\ rpc'[t] = "idle"
       /\ (branch[t] = "cold" /\ rpc[t] = "idle" /\ rpc'[t] # "idle")
            => /\ rendered[t] # None
               /\ rpc'[t] = "fetch"
               /\ opc'[t] = "inflight"
               /\ caller'[t] = "refill"
               /\ sources'[t] \in rng
               /\ calls'[t] = <<sources'[t][1]>>
               /\ result'[t] = None
               /\ pc'[t] = "done"
       /\ (branch[t] = "cold" /\ pc[t] = "done") => pc'[t] \in {"done", "closed"}
    ]_vars

C31_Witness ==
  \E t \in Tabs :
    /\ branch[t] = "cold"
    /\ pc[t] = "done"
    /\ artwork[t] # None
    /\ rendered[t] = artwork[t]
    /\ rpc[t] = "fetch"
    /\ caller[t] = "refill"
    /\ opc[t] = "inflight"

\* C32: the order a run works through is a permutation of the registry's
\* four keys; no adapter is called twice in one run; and a run that has
\* returned null has called every adapter of the registry, each exactly
\* once, and none of them produced an artwork.
C32_ShuffleIsPermutation ==
  \A t \in Tabs :
    /\ opc[t] # "idle"
         => /\ Len(sources[t]) = Len(FETCHERS)
            /\ \A s \in Range(FETCHERS) :
                 Cardinality({ i \in DOMAIN sources[t] : sources[t][i] = s }) = 1
    /\ \A s \in Range(FETCHERS) :
         Cardinality({ i \in DOMAIN calls[t] : calls[t][i] = s }) <= 1
    /\ (opc[t] = "returned" /\ result[t] = None)
         => \A s \in Range(FETCHERS) :
              /\ Cardinality({ i \in DOMAIN calls[t] : calls[t][i] = s }) = 1
              /\ outcome[t][s].kind \in {"null", "raise"}

C32_Witness ==
  \E t \in Tabs :
    /\ opc[t] = "returned"
    /\ result[t] = None
    /\ sources[t] # FETCHERS
    /\ calls[t] = sources[t]
    /\ Len(calls[t]) = 4

\* A step of the session's refill: prefetchAndCache or toDataUrl moves on,
\* the store answers the refill's set, or the refill's orchestrator run
\* moves on.
RefillStep(t) ==
  /\ pc'[t] # "closed"
  /\ \/ <<rpc[t], rart[t], rbody[t], rerr[t]>> # <<rpc'[t], rart'[t], rbody'[t], rerr'[t]>>
     \/ /\ caller[t] = "refill"
        /\ <<opc[t], calls[t], running[t], outcome[t], result[t]>>
             # <<opc'[t], calls'[t], running'[t], outcome'[t], result'[t]>>

\* C33: the handler has made its render call before the refill starts, and
\* from then on the values the handler rendered from (the entry read, the
\* artwork fetched, the branch) stay as they are; no step of the refill,
\* whether it succeeds, finds nothing or fails, calls renderArtwork or
\* showError, changes what the page displays or moves the handler; while a
\* refill exists the displayed record changes only by the onerror retry of
\* the image already handed over.
C33_DisplayIgnoresRefill ==
  [][\A t \in Tabs :
       /\ rpc'[t] # "idle" => rendered'[t] # None
       /\ (rpc[t] # "idle" /\ pc'[t] # "closed")
            => /\ ready'[t] = ready[t]
               /\ artwork'[t] = artwork[t]
               /\ branch'[t] = branch[t]
               /\ rendered'[t] # rendered[t]
                    => (img[t] = "loading" /\ rendered'[t] = FALLBACK /\ ~RefillStep(t))
       /\ RefillStep(t)
            => /\ rendered'[t] = rendered[t]
               /\ img'[t] = img[t]
               /\ errorShown'[t] = errorShown[t]
               /\ loads'[t] = loads[t]
               /\ rpc[t] # "idle" => pc'[t] = pc[t]
    ]_vars

C33_Witness ==
  \E t \in Tabs :
    /\ branch[t] = "warm"
    /\ rpc[t] = "cached"
    /\ rendered[t] = ready[t]
    /\ img[t] = "painted"
    /\ loads[t] = 1
    /\ slot # None
    /\ slot # ready[t]

\* the Artwork records the adapters can produce
Produced == UNION { Catalogue(s) : s \in Range(FETCHERS) }

\* an adapter-produced artwork record extended with a non-empty dataUrl
WellFormedEntry(e) == HasDataUrl(e) /\ WithoutDataUrl(e) \in Produced

\* C34: the slot, empty at first, is at every moment empty or holds an
\* adapter-produced artwork record extended with a dataUrl; a session whose
\* read of the slot finds an entry gets that entry and takes the cache-hit
\* branch.
C34_SlotWellFormed ==
  [][/\ slot = None \/ WellFormedEntry(slot)
     /\ slot' = None \/ WellFormedEntry(slot')
     /\ \A t \in Tabs :
          (pc[t] = "await_get" /\ pc'[t] \notin {"await_get", "closed", "rejected"} /\ slot # None)
            => /\ ready'[t] = slot
               /\ branch'[t] = "warm"
               /\ pc'[t] = "hit_remove"
    ]_vars

C34_Witness ==
  \E t \in Tabs :
    /\ pc[t] = "hit_remove"
    /\ branch[t] = "warm"
    /\ slot # None
    /\ ready[t] = slot
    /\ WellFormedEntry(slot)
    /\ rpc[t] = "idle"

\* the requests of kind op that tab t has pending in the store
Pending(t, op) == { i \in DOMAIN sq[t] : sq[t][i].op = op }

\* C35: a session is in the cache-hit branch exactly when the value it read
\* from 'ready' exists and has a non-empty dataUrl; the branch is decided by
\* the session's one read of the slot and never revised; a session in the
\* cache-miss branch has issued no remove, and the slot stays as that
\* session found it until the session's own refill writes its entry.
C35_BranchDecision ==
  [][\A t \in Tabs :
       /\ branch'[t] = "warm" <=> HasDataUrl(ready'[t])
       /\ branch'[t] = "cold" =>
            /\ ~HasDataUrl(ready'[t])
            /\ evict'[t] = "none"
            /\ Pending(t, "remove")' = {}
       /\ (branch[t] = "none" /\ branch'[t] # "none")
            => (HeadOp(t) = "get" /\ ready'[t] = slot)
       /\ branch'[t] # "none" => Pending(t, "get")' = {}
       /\ (branch[t] # "none" /\ pc'[t] # "closed")
            => (branch'[t] = branch[t] /\ ready'[t] = ready[t])
       /\ (branch[t] = "cold" /\ pc'[t] # "closed" /\ slot' # slot)
            => /\ slot = ready[t]
               /\ rpc[t] = "set"
               /\ rpc'[t] = "cached"
               /\ slot' = RefillEntry(t)
    ]_vars

C35_Witness ==
  \E t \in Tabs :
    /\ branch[t] = "cold"
    /\ ready[t] = None
    /\ rendered[t] # None
    /\ rpc[t] = "cached"
    /\ slot = RefillEntry(t)
    /\ evict[t] = "none"

\* C36: when the store processes the remove of an open warm session and the
\* slot then holds an entry written after that session's read (by the refill
\* of another tab), the entry deleted has been rendered by some session.
C36_EvictsOnlyWhatItRead ==
  [][\A t \in Tabs :
       ( /\ HeadOp(t) = "remove"
         /\ evict[t] = "issued"
         /\ ~fresh[t]
         /\ slot # None
         /\ slot' = None )
         => shown
    ]_vars

\* C37: the artist field of every Artwork an adapter returns satisfies
\* matchesArtist by itself, the Cleveland adapter's included.
C37_ReturnedArtistOnList ==
  Returned => matchesArtist(Str(adOut.artist))

\* C38: a refill whose image request was answered with an error response
\* (non-2xx status, a body that is no image) sends no set and caches nothing,
\* and the dataUrl of every entry written or queued for writing is the
\* encoding of a downloaded image.
C38_CachedOnlyAfterImage ==
  /\ slot # None => slot.dataUrl = DataUrlImage
  /\ \A t \in Tabs :
       /\ rbody[t] = "errorbody" => rpc[t] \notin {"set", "cached"}
       /\ \A i \in PendingSets(t) : sq[t][i].value.dataUrl = DataUrlImage

\* ---------------------------------------------------------- the ticker list
NoDuplicates(l) == \A i, j \in DOMAIN l : l[i] = l[j] => i = j

\* C39: the list stored under 'stockWidgets' never holds a ticker twice, and
\* when an addTicker call completes (its quote has arrived) while the card
\* of its ticker is on the page and no removeTicker of that ticker is under
\* way, the ticker is in the stored list.
C39_TickerListIntegrity ==
  [][/\ NoDuplicates(SavedTickers')
     /\ \A t \in Tabs :
          ( /\ apc[t] = "quote"
            /\ apc'[t] = "idle"
            /\ wpc'[t] = "ready"
            /\ aticker[t] \in cards[t]
            /\ ~(dpc[t] # "idle" /\ dticker[t] = aticker[t]) )
            => aticker[t] \in Range(SavedTickers')
    ]_vars

====
